---------------------------- MODULE Spec2Model ----------------------------
(* A model of the ghcr-cleanup-action engine: the package catalogue          *)
(* (PackageRepo), the usedBy graph and filter pipeline (CleanupTask) and the *)
(* executor (deleteImage / deleteByTag), over a small registry.              *)
(*                                                                           *)
(* Digests are naturals.  A tag is a record [hex, name]: hex = 0 for a plain *)
(* tag "name"; hex = d for the tag "sha256-<64 hex of d><name>".  JavaScript *)
(* Sets and Maps iterate in insertion order, so they are sequences without   *)
(* repetition wherever the code iterates over them.                          *)
EXTENDS Naturals, Integers, Sequences, FiniteSets, TLC

VARIABLES
    config,            \* CleanupTask.config (built by buildConfig)
    reg,               \* the registry: the versions the packages API lists
    nextId,            \* the id the platform gives the next created version
    packages,          \* PackageRepo: the listing of the last loadPackages
    tagsInUse,         \* CleanupTask.tagsInUse
    excludeTags,       \* CleanupTask.excludeTags
    filterSet,         \* CleanupTask.filterSet
    deleteSet,         \* CleanupTask.deleteSet
    digestUsedBy,      \* CleanupTask.digestUsedBy
    deleted,           \* CleanupTask.deleted
    manifestCache,     \* Registry.manifestCache (digests held)
    fetches,           \* history: manifest GETs that reached the registry
    warnings,          \* what CleanupTask.validate reported
    lastDeleteResult,  \* PackageRepo.lastDeleteResult
    calls,             \* history: every deletePackageVersion invocation
    puts,              \* history: every putManifest invocation
    putErrors,         \* history: the tags whose PUT the registry refused
    reg0,              \* history: the registry when the task started
    failed,            \* an exception left the task (main.run calls setFailed)
    processed,         \* main: the target packages whose task was started
    authorization,     \* Registry: the Authorization header holds a token
    stack,             \* the call stack of doDelete / deleteImage, step by step
    pc                 \* position of the task in main.run / CleanupTask.run

vars == <<config, reg, nextId, packages, tagsInUse, excludeTags, filterSet,
          deleteSet, digestUsedBy, deleted, manifestCache, fetches, warnings,
          lastDeleteResult, calls, puts, putErrors, reg0, failed, processed,
          authorization, stack, pc>>

-----------------------------------------------------------------------------
(* Bounds of the model.                                                      *)

\* the largest keep-n-tagged / keep-n-untagged value tried
MaxKeep == 1
\* the largest number of options set together in one configuration
MaxOptions == 3
\* the current time (Date.now()); every updated_at of a fixture is below it
MaxTime == 10
\* digests of the substitute manifests of the untag protocol start above this
FakeBase == 100
\* number of deletePackageVersion calls followed in the PackageRepo harness
MaxCalls == 4
\* the largest number of target packages of one invocation
MaxPackages == 2
\* the deepest call stack of doDelete / deleteImage that is followed
MaxDepth == 6

\* JavaScript undefined / null for a digest, an id, or an unset number
Null == 0

-----------------------------------------------------------------------------
(* Sequences used as insertion-ordered sets.                                 *)

Range(s) == {s[i] : i \in 1..Len(s)}

SeqHas(s, x) == \E i \in 1..Len(s) : s[i] = x

\* Set.add
SeqAdd(s, x) == IF SeqHas(s, x) THEN s ELSE Append(s, x)

\* Set.delete
SeqDelete(s, x) == SelectSeq(s, LAMBDA y : y # x)

RECURSIVE SeqDeleteAll(_, _)
SeqDeleteAll(s, xs) ==
    IF xs = <<>> THEN s ELSE SeqDeleteAll(SeqDelete(s, Head(xs)), Tail(xs))

RECURSIVE Flatten(_)
Flatten(ss) == IF ss = <<>> THEN <<>> ELSE Head(ss) \o Flatten(Tail(ss))

-----------------------------------------------------------------------------
(* Tags.                                                                     *)

PlainTag(n) == [hex |-> Null, name |-> n]
\* the tag "sha256-<hex of d>" and the same tag with a suffix
RefTag(d) == [hex |-> d, name |-> ""]
RefSigTag(d) == [hex |-> d, name |-> ".sig"]

\* digest.replace('sha256:', 'sha256-')
digestTag(d) == RefTag(d)

\* tag.startsWith(digestTag): the 64 hex characters must agree, a suffix may follow
startsWith(tag, prefix) == tag.hex # Null /\ tag.hex = prefix.hex /\ prefix.name = ""

\* tag.startsWith('sha256-')
isShaTag(tag) == tag.hex # Null

\* tag.replace('sha256-', 'sha256:') trimmed to 71 characters
subjectDigest(tag) == tag.hex

-----------------------------------------------------------------------------
(* The manifests of the registry, by digest (content addressed).             *)
(*   1 = index [3, 4]     2 = index [3, 5]     6 = index [7, 8] whose        *)
(*   entries carry platform.architecture "unknown" (attestations);           *)
(*   every other digest below FakeBase is a single image.                    *)
(* FakeBase + d is the manifest of d with manifests[] / layers[] emptied.    *)

IsFake(d) == d > FakeBase

\* manifest.manifests is truthy (an empty array is truthy too)
IsIndex(d) == IF IsFake(d) THEN (d - FakeBase) \in {1, 2, 6} ELSE d \in {1, 2, 6}

\* manifest.manifests[*].digest
Children(d) ==
    CASE d = 1 -> <<3, 4>>
      [] d = 2 -> <<3, 5>>
      [] d = 6 -> <<7, 8>>
      [] OTHER -> <<>>

\* imageManifest.platform.architecture === 'unknown' for the entry of c in p
EntryUnknownArch(p, c) == p = 6

\* the digest the registry computes for the substitute manifest of d
FakeDigest(d) == FakeBase + d

-----------------------------------------------------------------------------
(* The packages API: a listing is a sequence of versions                     *)
(* {id, name (= digest), updated_at, metadata.container.tags}.               *)

Version(i, d, ts, t) == [id |-> i, name |-> d, tags |-> ts, updated_at |-> t]

\* what getPackageByDigest returns for an unknown digest
NoPackage == Version(Null, Null, <<>>, Null)

getDigests(pk) == [i \in 1..Len(pk) |-> pk[i].name]

getTags(pk) == Flatten([i \in 1..Len(pk) |-> pk[i].tags])

getDigestByTag(pk, tag) ==
    LET holders == {i \in 1..Len(pk) : SeqHas(pk[i].tags, tag)}
    IN  IF holders = {} THEN Null
        ELSE pk[CHOOSE i \in holders : \A j \in holders : j <= i].name

getIdByDigest(pk, d) ==
    LET holders == {i \in 1..Len(pk) : pk[i].name = d}
    IN  IF holders = {} THEN Null
        ELSE pk[CHOOSE i \in holders : \A j \in holders : j <= i].id

getPackageByDigest(pk, d) ==
    LET holders == {i \in 1..Len(pk) : pk[i].name = d}
    IN  IF holders = {} THEN NoPackage
        ELSE pk[CHOOSE i \in holders : \A j \in holders : j <= i]

\* the registry side of DELETE /versions/{id}
RegHasId(r, id) == \E i \in 1..Len(r) : r[i].id = id

RegDelete(r, id) == SelectSeq(r, LAMBDA v : v.id # id)

\* the registry side of PUT /manifests/{tag}: the tag leaves the version that
\* held it and lands on the version of the uploaded manifest, which is created
\* (newest first in the listing) when it does not exist
RegPut(r, id, tag, d) ==
    LET stripped == [i \in 1..Len(r) |->
                        [r[i] EXCEPT !.tags = SeqDelete(@, tag)]]
    IN  IF \E i \in 1..Len(r) : r[i].name = d
        THEN [i \in 1..Len(r) |->
                 IF stripped[i].name = d
                 THEN [stripped[i] EXCEPT !.tags = Append(@, tag)]
                 ELSE stripped[i]]
        ELSE <<Version(id, d, <<tag>>, MaxTime)>> \o stripped

RegDigests(r) == {r[i].name : i \in 1..Len(r)}

RegTagsOf(r, d) ==
    UNION {Range(r[i].tags) : i \in {j \in 1..Len(r) : r[j].name = d}}

RegAllTags(r) == UNION {Range(r[i].tags) : i \in 1..Len(r)}

RegDigestOfTag(r, tag) == getDigestByTag(r, tag)

-----------------------------------------------------------------------------
(* Configuration: buildConfig.  A tag pattern (wildcard list or regular      *)
(* expression) is modelled by the set of tags it matches.                    *)

Unset == -1

TagA == PlainTag("a")
TagB == PlainTag("b")
TagC == PlainTag("c")
TagD == PlainTag("d")
Dummy == PlainTag("dummy")

AllTags == {TagA, TagB, TagC, TagD, Dummy,
            RefTag(1), RefSigTag(9), RefTag(2), RefTag(5), RefTag(8),
            RefSigTag(3), RefTag(10), RefTag(9), RefTag(7)}

\* exclude-tags: unset, "dummy", "dummy,sha256-*"
ExcludeChoices == {{}, {Dummy}, {Dummy} \cup {t \in AllTags : isShaTag(t)}}

\* the tags for which the registry may answer PUT /manifests/<tag> with an error
PutErrorChoices == {{}, {TagA}, {TagB}}

\* delete-tags: unset, "a", "a,b"
DeleteChoices == {{}, {TagA}, {TagA, TagB}}

\* older-than: unset, an interval that splits the fixtures, "30 years"
OlderThanChoices == {0, MaxTime - 5, MaxTime}

KeepChoices == {Unset} \cup (0..MaxKeep)

Inputs ==
    [deleteTags : DeleteChoices, excludeTags : ExcludeChoices,
     olderThan : OlderThanChoices,
     keepNtagged : KeepChoices, keepNuntagged : KeepChoices,
     deleteUntagged : {"", "true", "false"},
     deleteGhostImages : BOOLEAN, deletePartialImages : BOOLEAN,
     deleteOrphanedImages : BOOLEAN, dryRun : BOOLEAN, validate : BOOLEAN]

B2N(b) == IF b THEN 1 ELSE 0

\* number of inputs given a value
OptionCount(in) ==
    B2N(in.deleteTags # {}) + B2N(in.excludeTags # {}) + B2N(in.olderThan # 0)
    + B2N(in.keepNtagged # Unset) + B2N(in.keepNuntagged # Unset)
    + B2N(in.deleteUntagged # "") + B2N(in.deleteGhostImages)
    + B2N(in.deletePartialImages) + B2N(in.deleteOrphanedImages)
    + B2N(in.dryRun) + B2N(in.validate)

\* buildConfig throws for these inputs (keepNuntagged is tested for truthiness)
ConfigRejected(in) ==
    in.keepNuntagged # Unset /\ in.keepNuntagged # 0 /\ in.deleteUntagged # ""

\* a default that is on only when no option at all is set
DefaultDeleteUntagged_NoOptionAtAll(in) ==
    IF in.deleteUntagged # ""
    THEN in.deleteUntagged = "true"
    ELSE /\ in.deleteTags = {}
         /\ ~in.deleteGhostImages
         /\ ~in.deletePartialImages
         /\ ~in.deleteOrphanedImages
         /\ in.keepNuntagged = Unset
         /\ in.keepNtagged = Unset
         /\ in.excludeTags = {}
         /\ in.olderThan = 0

\* the deleteUntagged value buildConfig computes
DefaultDeleteUntagged(in) ==
    IF in.deleteUntagged # ""
    THEN in.deleteUntagged = "true"
    ELSE /\ in.deleteTags = {}
         /\ ~in.deleteGhostImages
         /\ ~in.deletePartialImages
         /\ ~in.deleteOrphanedImages
         /\ in.keepNuntagged = Unset
         /\ in.keepNtagged = Unset

buildConfig(in) ==
    [deleteTags |-> in.deleteTags, excludeTags |-> in.excludeTags,
     olderThan |-> in.olderThan,
     keepNtagged |-> in.keepNtagged, keepNuntagged |-> in.keepNuntagged,
     deleteUntagged |-> DefaultDeleteUntagged(in),
     deleteGhostImages |-> in.deleteGhostImages,
     deletePartialImages |-> in.deletePartialImages,
     deleteOrphanedImages |-> in.deleteOrphanedImages,
     dryRun |-> in.dryRun, validate |-> in.validate]

Configs ==
    {buildConfig(in) : in \in {i \in Inputs :
                                 ~ConfigRejected(i) /\ OptionCount(i) <= MaxOptions}}

-----------------------------------------------------------------------------
(* The packages the runs start from (listing order as the API returns it).   *)

\* indexes 1 = [3,4] tagged a and 2 = [3,5] tagged b share child 3; 1 listed first
FixShared1 ==
    <<Version(11, 1, <<TagA>>, 6), Version(12, 2, <<TagB>>, 7),
      Version(13, 3, <<>>, 5), Version(14, 4, <<>>, 5), Version(15, 5, <<>>, 5)>>

\* the same package listed newest first
FixShared2 ==
    <<Version(12, 2, <<TagB>>, 7), Version(11, 1, <<TagA>>, 6),
      Version(15, 5, <<>>, 5), Version(14, 4, <<>>, 5), Version(13, 3, <<>>, 5)>>

\* a single image with three tags, one with two tags, an untagged one
FixMultiTag ==
    <<Version(21, 9, <<TagA, TagB, TagC>>, 3), Version(22, 10, <<>>, 2),
      Version(23, 7, <<Dummy>>, 8)>>

\* an index carrying exactly the tags a and b, and a single image tagged c
FixMultiTagIndex ==
    <<Version(31, 1, <<TagA, TagB>>, 4), Version(32, 3, <<>>, 4),
      Version(33, 4, <<>>, 4), Version(34, 9, <<TagC>>, 2),
      Version(35, 10, <<>>, 1)>>

\* tagged and untagged single images of different ages
FixKeep ==
    <<Version(41, 9, <<TagA>>, 9), Version(42, 10, <<TagB>>, 8),
      Version(43, 7, <<TagC, Dummy>>, 7), Version(44, 8, <<TagD>>, 3),
      Version(45, 3, <<>>, 6), Version(46, 4, <<>>, 2), Version(47, 5, <<>>, 4)>>

\* index 1 with the referrer index 6 = [7,8] under tag sha256-<1>
FixReferrer ==
    <<Version(51, 1, <<TagA>>, 4), Version(52, 3, <<>>, 4),
      Version(53, 4, <<>>, 4), Version(54, 6, <<RefTag(1)>>, 6),
      Version(55, 7, <<>>, 6), Version(56, 8, <<>>, 6),
      Version(57, 9, <<TagB>>, 2)>>

\* image 9 with a signature under the suffixed tag sha256-<9>.sig
FixSignature ==
    <<Version(61, 9, <<TagA>>, 4), Version(62, 10, <<RefSigTag(9)>>, 4),
      Version(63, 5, <<Dummy>>, 3)>>

\* index 2 with both children missing, index 1 with child 3 missing
FixGhost ==
    <<Version(71, 2, <<TagB>>, 4), Version(72, 1, <<TagA>>, 3),
      Version(73, 4, <<>>, 3)>>

\* referrer tags whose subjects (2, 5, 8) are not in the package
FixOrphan ==
    <<Version(81, 9, <<RefTag(2)>>, 3), Version(82, 10, <<RefTag(5), Dummy>>, 7),
      Version(83, 1, <<TagA>>, 6), Version(84, 3, <<RefTag(8)>>, 6),
      Version(85, 4, <<>>, 6)>>

\* a platform image of index 1 that carries the tag dummy itself
FixTaggedChild ==
    <<Version(91, 1, <<TagA>>, 4), Version(92, 3, <<Dummy>>, 4),
      Version(93, 4, <<>>, 4), Version(94, 9, <<>>, 1)>>

\* the attestation index 6 = [7,8] tagged a, its child 8 missing
FixAttestation ==
    <<Version(96, 6, <<TagA>>, 4), Version(97, 7, <<>>, 4),
      Version(98, 9, <<>>, 3)>>

\* the untagged index 1 = [3,4] and the tagged index 2 = [3,5] share child 3
FixSharedUntagged ==
    <<Version(16, 1, <<>>, 6), Version(17, 2, <<TagB>>, 7),
      Version(18, 3, <<>>, 5), Version(19, 4, <<>>, 5), Version(20, 5, <<>>, 5)>>

\* what an interrupted untag of tag a from index 1 = [3,4] leaves: tag a on the
\* uploaded index without manifests, tag b on index 1
FixEmptyIndex ==
    <<Version(36, FakeDigest(1), <<TagA>>, 5), Version(37, 1, <<TagB>>, 4),
      Version(38, 3, <<>>, 4), Version(39, 4, <<>>, 4)>>

\* index 1 = [3,4] whose platform image 3 is signed: the signature 10 is
\* under the tag sha256-<3>.sig (cosign sign --recursive)
FixSignedChild ==
    <<Version(26, 1, <<TagA>>, 4), Version(27, 3, <<>>, 4),
      Version(28, 4, <<>>, 4), Version(29, 10, <<RefSigTag(3)>>, 5)>>

\* image 9 with the signature 10 under sha256-<9>.sig, and the referrer index
\* 6 = [7,8] of that signature under sha256-<10>
FixNestedReferrer ==
    <<Version(64, 9, <<TagA>>, 5), Version(65, 10, <<RefSigTag(9)>>, 5),
      Version(66, 6, <<RefTag(10)>>, 5), Version(67, 7, <<>>, 5),
      Version(68, 8, <<>>, 5)>>

\* image 9 with the referrer 10 under sha256-<9>; 10 and 7 are referrers of
\* each other: 10 also carries sha256-<7>, and 7 carries sha256-<10>
FixCycle ==
    <<Version(74, 9, <<TagA>>, 5),
      Version(75, 10, <<RefTag(9), RefTag(7)>>, 5),
      Version(76, 7, <<RefTag(10)>>, 5)>>

\* the versions of a second package of the repository
FixOther ==
    <<Version(71, 9, <<TagA, TagB>>, 4), Version(72, 10, <<>>, 3)>>

Fixtures ==
    {FixShared1, FixShared2, FixMultiTag, FixMultiTagIndex, FixKeep,
     FixReferrer, FixSignature, FixGhost, FixOrphan, FixTaggedChild,
     FixAttestation, FixSharedUntagged, FixEmptyIndex, FixSignedChild,
     FixNestedReferrer}

-----------------------------------------------------------------------------
(* Registry.getManifestByDigest on the working record of a handler.  A       *)
(* handler threads a record st through its calls:                            *)
(*   reg, nextId, lastDeleteResult, calls, puts, failed   as the variables,  *)
(*   putErrors as the variable, badPuts = the tags for which the registry    *)
(*   answers PUT with an error other than 401 during this handler,           *)
(*   cache = manifestCache, fetches = the GETs that reached the registry,    *)
(*   deleted, usedBy = CleanupTask.deleted / digestUsedBy,                   *)
(*   auth = authorization: without a token the registry answers 401.         *)
(* failed = TRUE means an exception is propagating: every later step of the  *)
(* handler is skipped.                                                       *)

\* getManifestByDigest that never looks into manifestCache
getManifestByDigest_NoCache(st, d) ==
    IF st.failed THEN st
    ELSE IF st.auth /\ d \in RegDigests(st.reg)
         THEN [st EXCEPT !.cache = @ \cup {d}, !.fetches = Append(@, d)]
         ELSE [st EXCEPT !.failed = TRUE, !.fetches = Append(@, d)]

getManifestByDigest(st, d) ==
    IF st.failed \/ d \in st.cache THEN st
    ELSE IF st.auth /\ d \in RegDigests(st.reg)
         THEN [st EXCEPT !.cache = @ \cup {d}, !.fetches = Append(@, d)]
         ELSE [st EXCEPT !.failed = TRUE, !.fetches = Append(@, d)]

RECURSIVE getManifests(_, _)
getManifests(st, ds) ==
    IF ds = <<>> THEN st
    ELSE getManifests(getManifestByDigest(st, Head(ds)), Tail(ds))

-----------------------------------------------------------------------------
(* CleanupTask.reload and its parts.                                         *)

\* loadDigestUsedByMap: a for-of loop over the Set digests, which the loop
\* body shrinks; 'removed' holds the digests deleted from it so far, 'seen'
\* the digests whose manifest was requested.  usedBy is the set of
\* <<child, parent>> pairs of the Map.
RECURSIVE loadDigestUsedByMap(_, _, _, _, _)
loadDigestUsedByMap(ds, i, removed, used, seen) ==
    IF i > Len(ds) THEN [usedBy |-> used, seen |-> seen]
    ELSE IF ds[i] \in removed
         THEN loadDigestUsedByMap(ds, i + 1, removed, used, seen)
         ELSE LET d == ds[i]
                  present == IF IsIndex(d)
                             THEN {c \in Range(Children(d)) :
                                     c \in Range(ds) \ removed}
                             ELSE {}
              IN  loadDigestUsedByMap(ds, i + 1, removed \cup present,
                                      used \cup {<<c, d>> : c \in present},
                                      Append(seen, d))

\* the digests a tag beginning with sha256-<d> points at
referrersOf(pk, d) ==
    LET ts == SelectSeq(getTags(pk), LAMBDA t : startsWith(t, digestTag(d)))
    IN  SelectSeq([j \in 1..Len(ts) |-> getDigestByTag(pk, ts[j])],
                  LAMBDA x : x # Null)

\* initFilterSet: again a for-of loop over a Set shrunk by its body
RECURSIVE initFilterSet(_, _, _, _)
initFilterSet(pk, i, removed, seen) ==
    LET ds == getDigests(pk)
    IN  IF i > Len(ds)
        THEN [filterSet |-> SelectSeq(ds, LAMBDA d : d \notin removed),
              seen |-> seen]
        ELSE IF ds[i] \in removed
             THEN initFilterSet(pk, i + 1, removed, seen)
             ELSE LET d == ds[i]
                      kids == IF IsIndex(d) THEN Range(Children(d)) ELSE {}
                      refs == referrersOf(pk, d)
                      refKids == UNION {Range(Children(r)) :
                                          r \in {x \in Range(refs) : IsIndex(x)}}
                  IN  initFilterSet(pk, i + 1,
                                    removed \cup kids \cup Range(refs) \cup refKids,
                                    (seen \o <<d>>) \o refs)

\* tags matching exclude-tags, in tagsInUse order
matchExclude(cfg, tags) == SelectSeq(tags, LAMBDA t : t \in cfg.excludeTags)

\* the exclude loop: filterSet.delete(getDigestByTag(tag)) for each match
excludeFilter(pk, fs, ex) ==
    SelectSeq(fs, LAMBDA d :
        ~\E j \in 1..Len(ex) : getDigestByTag(pk, ex[j]) = d)

\* reload without the older-than loop
olderThanFilter_Off(cfg, pk, fs) == fs

\* new Date(Date.now() - olderThan)
cutOff(cfg) == MaxTime - cfg.olderThan

\* the older-than loop: digests updated at or after the cut-off leave filterSet
olderThanFilter(cfg, pk, fs) ==
    IF cfg.olderThan # 0
    THEN SelectSeq(fs, LAMBDA d :
             ~(getPackageByDigest(pk, d).updated_at >= cutOff(cfg)))
    ELSE fs

\* reload on the working record st: the listing is read into pk, the task
\* fields are rebuilt; the result carries st with deleted cleared
reload(st, cfg) ==
    LET pk == st.reg
        lu == loadDigestUsedByMap(getDigests(pk), 1, {}, {}, <<>>)
        s1 == getManifests(st, lu.seen)
        fi == initFilterSet(pk, 1, {}, <<>>)
        s2 == getManifests(s1, fi.seen)
        ex == matchExclude(cfg, getTags(pk))
    IN  [st |-> [s2 EXCEPT !.deleted = {}, !.usedBy = lu.usedBy],
         packages |-> pk,
         tagsInUse |-> getTags(pk),
         excludeTags |-> ex,
         filterSet |-> olderThanFilter(cfg, pk, excludeFilter(pk, fi.filterSet, ex)),
         deleteSet |-> <<>>]

-----------------------------------------------------------------------------
(* The selection stages.  Each returns the new filterSet and deleteSet.      *)

\* a selection that puts the digest in front of the earlier selections
RECURSIVE moveToDelete_Front(_, _, _)
moveToDelete_Front(fs, dset, sel) ==
    IF sel = <<>> THEN [filterSet |-> fs, deleteSet |-> dset]
    ELSE moveToDelete_Front(SeqDelete(fs, Head(sel)),
                            IF SeqHas(dset, Head(sel)) THEN dset
                            ELSE <<Head(sel)>> \o dset,
                            Tail(sel))

\* deleteSet.add(d); filterSet.delete(d) for each d of sel, in order
RECURSIVE moveToDelete(_, _, _)
moveToDelete(fs, dset, sel) ==
    IF sel = <<>> THEN [filterSet |-> fs, deleteSet |-> dset]
    ELSE moveToDelete(SeqDelete(fs, Head(sel)), SeqAdd(dset, Head(sel)),
                      Tail(sel))

missingChildren(pk, d) ==
    Cardinality({k \in 1..Len(Children(d)) :
                   getIdByDigest(pk, Children(d)[k]) = Null})

\* all of the child manifests don't exist
isGhostImage(pk, d) == IsIndex(d) /\ missingChildren(pk, d) = Len(Children(d))

\* some of the child manifests don't exist
isPartialImage(pk, d) ==
    IsIndex(d) /\ \E k \in 1..Len(Children(d)) :
                      getIdByDigest(pk, Children(d)[k]) = Null

deleteGhostImages(pk, fs, dset) ==
    moveToDelete(fs, dset, SelectSeq(fs, LAMBDA d : isGhostImage(pk, d)))

deletePartialImages(pk, fs, dset) ==
    moveToDelete(fs, dset, SelectSeq(fs, LAMBDA d : isPartialImage(pk, d)))

\* the orphan test of the earlier revision: the subject is the whole tag with
\* sha256- replaced, not cut to 71 characters, so a suffixed tag never finds it
deleteOrphanedImages_NoTrim(pk, fs, dset) ==
    LET orphanTags == SelectSeq(getTags(pk), LAMBDA t :
                          isShaTag(t) /\ (t.name # ""
                                          \/ getIdByDigest(pk, subjectDigest(t)) = Null))
        orphans == SelectSeq([j \in 1..Len(orphanTags) |->
                                  getDigestByTag(pk, orphanTags[j])],
                             LAMBDA x : x # Null)
    IN  moveToDelete(fs, dset, orphans)

\* the loop runs over every tag of the package, not over filterSet
deleteOrphanedImages(pk, fs, dset) ==
    LET orphanTags == SelectSeq(getTags(pk), LAMBDA t :
                          isShaTag(t) /\ getIdByDigest(pk, subjectDigest(t)) = Null)
        orphans == SelectSeq([j \in 1..Len(orphanTags) |->
                                  getDigestByTag(pk, orphanTags[j])],
                             LAMBDA x : x # Null)
    IN  moveToDelete(fs, dset, orphans)

\* the comparator reversed: ascending
insertDesc_Ascending(sorted, p) ==
    LET k == Cardinality({i \in 1..Len(sorted) :
                            sorted[i].updated_at <= p.updated_at})
    IN  (SubSeq(sorted, 1, k) \o <<p>>) \o SubSeq(sorted, k + 1, Len(sorted))

\* Array.prototype.sort with (a, b) => Date.parse(b.updated_at) -
\* Date.parse(a.updated_at): descending and stable
insertDesc(sorted, p) ==
    LET k == Cardinality({i \in 1..Len(sorted) :
                            sorted[i].updated_at >= p.updated_at})
    IN  (SubSeq(sorted, 1, k) \o <<p>>) \o SubSeq(sorted, k + 1, Len(sorted))

RECURSIVE sortDesc(_, _)
sortDesc(sorted, ps) ==
    IF ps = <<>> THEN sorted
    ELSE sortDesc(insertDesc(sorted, Head(ps)), Tail(ps))

\* array.splice(n): the elements from position n on
splice(ps, n) == SubSeq(ps, n + 1, Len(ps))

namesOf(ps) == [i \in 1..Len(ps) |-> ps[i].name]

packagesOf(pk, fs) == [i \in 1..Len(fs) |-> getPackageByDigest(pk, fs[i])]

\* keepNuntagged sorting ascending: the N oldest are retained
keepNuntagged_KeepOldest(cfg, pk, fs, dset) ==
    LET unTaggedPackages == SelectSeq(packagesOf(pk, fs),
                                      LAMBDA g : Len(g.tags) = 0)
        desc == sortDesc(<<>>, unTaggedPackages)
        sorted == [i \in 1..Len(desc) |-> desc[Len(desc) + 1 - i]]
    IN  IF Len(unTaggedPackages) > 0 /\ Len(sorted) > cfg.keepNuntagged
        THEN moveToDelete(fs, dset, namesOf(splice(sorted, cfg.keepNuntagged)))
        ELSE [filterSet |-> fs, deleteSet |-> dset]

\* keepNuntagged testing the option for truthiness: 0 counts as not set
keepNuntagged_ZeroIsUnset(cfg, pk, fs, dset) ==
    LET unTaggedPackages == SelectSeq(packagesOf(pk, fs),
                                      LAMBDA g : Len(g.tags) = 0)
        sorted == sortDesc(<<>>, unTaggedPackages)
    IN  IF cfg.keepNuntagged # 0
           /\ Len(unTaggedPackages) > 0 /\ Len(sorted) > cfg.keepNuntagged
        THEN moveToDelete(fs, dset, namesOf(splice(sorted, cfg.keepNuntagged)))
        ELSE [filterSet |-> fs, deleteSet |-> dset]

keepNuntagged(cfg, pk, fs, dset) ==
    LET unTaggedPackages == SelectSeq(packagesOf(pk, fs),
                                      LAMBDA g : Len(g.tags) = 0)
        sorted == sortDesc(<<>>, unTaggedPackages)
    IN  IF Len(unTaggedPackages) > 0 /\ Len(sorted) > cfg.keepNuntagged
        THEN moveToDelete(fs, dset, namesOf(splice(sorted, cfg.keepNuntagged)))
        ELSE [filterSet |-> fs, deleteSet |-> dset]

\* keepNtagged counting every image of filterSet, tagged or not
keepNtagged_AnyImage(cfg, pk, fs, dset) ==
    LET sorted == sortDesc(<<>>, packagesOf(pk, fs))
    IN  IF Len(sorted) > cfg.keepNtagged
        THEN moveToDelete(fs, dset, namesOf(splice(sorted, cfg.keepNtagged)))
        ELSE [filterSet |-> fs, deleteSet |-> dset]

\* keepNtagged testing the option for truthiness: 0 counts as not set
keepNtagged_ZeroIsUnset(cfg, pk, fs, dset) ==
    LET taggedPackages == SelectSeq(packagesOf(pk, fs),
                                    LAMBDA g : Len(g.tags) > 0)
        sorted == sortDesc(<<>>, taggedPackages)
    IN  IF cfg.keepNtagged # 0 /\ Len(sorted) > cfg.keepNtagged
        THEN moveToDelete(fs, dset, namesOf(splice(sorted, cfg.keepNtagged)))
        ELSE [filterSet |-> fs, deleteSet |-> dset]

keepNtagged(cfg, pk, fs, dset) ==
    LET taggedPackages == SelectSeq(packagesOf(pk, fs),
                                    LAMBDA g : Len(g.tags) > 0)
        sorted == sortDesc(<<>>, taggedPackages)
    IN  IF Len(sorted) > cfg.keepNtagged
        THEN moveToDelete(fs, dset, namesOf(splice(sorted, cfg.keepNtagged)))
        ELSE [filterSet |-> fs, deleteSet |-> dset]

deleteUntagged(pk, fs, dset) ==
    moveToDelete(fs, dset,
                 SelectSeq(fs, LAMBDA d : Len(getPackageByDigest(pk, d).tags) = 0))

-----------------------------------------------------------------------------
(* PackageRepo.deletePackageVersion.                                         *)

\* what the packages API answers to DELETE for this id
Response(r, id) == IF RegHasId(r, id) THEN "ok" ELSE "404"

\* deletePackageVersion keeping one flag per version: the first 404 for an id
\* is swallowed whatever became of the calls for other ids
deletePackageVersionResp_PerDigest(st, dryRun, id, name, kind, resp) ==
    LET entry(o) == [id |-> id, name |-> name, kind |-> kind, outcome |-> o,
                     resp |-> IF dryRun THEN "none" ELSE resp]
        seen404 == \E j \in 1..Len(st.calls) :
                      st.calls[j].id = id /\ st.calls[j].resp = "404"
    IN  IF st.failed THEN st
        ELSE IF dryRun
        THEN [st EXCEPT !.calls = Append(@, entry("dry"))]
        ELSE IF resp = "ok"
        THEN [st EXCEPT !.calls = Append(@, entry("ok")),
                        !.reg = RegDelete(@, id),
                        !.lastDeleteResult = TRUE]
        ELSE IF resp = "404" /\ ~seen404
        THEN [st EXCEPT !.calls = Append(@, entry("ignored")),
                        !.lastDeleteResult = FALSE]
        ELSE [st EXCEPT !.calls = Append(@, entry("thrown")),
                        !.failed = TRUE]

\* deletePackageVersion that never clears lastDeleteResult: every 404 is swallowed
deletePackageVersionResp_Swallow(st, dryRun, id, name, kind, resp) ==
    LET entry(o) == [id |-> id, name |-> name, kind |-> kind, outcome |-> o,
                     resp |-> IF dryRun THEN "none" ELSE resp]
    IN  IF st.failed THEN st
        ELSE IF dryRun
        THEN [st EXCEPT !.calls = Append(@, entry("dry"))]
        ELSE IF resp = "ok"
        THEN [st EXCEPT !.calls = Append(@, entry("ok")),
                        !.reg = RegDelete(@, id),
                        !.lastDeleteResult = TRUE]
        ELSE IF resp = "404" /\ st.lastDeleteResult = TRUE
        THEN [st EXCEPT !.calls = Append(@, entry("ignored"))]
        ELSE [st EXCEPT !.calls = Append(@, entry("thrown")),
                        !.failed = TRUE]

\* resp is the answer of the API: "ok", "404" or "500" (any other error).
\* The call is logged with what became of it: "dry" (no request), "ok",
\* "ignored" (404 swallowed) or "thrown".
deletePackageVersionResp(st, dryRun, id, name, kind, resp) ==
    LET entry(o) == [id |-> id, name |-> name, kind |-> kind, outcome |-> o,
                     resp |-> IF dryRun THEN "none" ELSE resp]
    IN  IF st.failed THEN st
        ELSE IF dryRun
        THEN [st EXCEPT !.calls = Append(@, entry("dry"))]
        ELSE IF resp = "ok"
        THEN [st EXCEPT !.calls = Append(@, entry("ok")),
                        !.reg = RegDelete(@, id),
                        !.lastDeleteResult = TRUE]
        ELSE IF resp = "404" /\ st.lastDeleteResult = TRUE
        THEN [st EXCEPT !.calls = Append(@, entry("ignored")),
                        !.lastDeleteResult = FALSE]
        ELSE [st EXCEPT !.calls = Append(@, entry("thrown")),
                        !.failed = TRUE]

deletePackageVersion(st, dryRun, id, name, kind) ==
    deletePackageVersionResp(st, dryRun, id, name, kind, Response(st.reg, id))

-----------------------------------------------------------------------------
(* The executor: buildLabel, deleteImage, primeManifests, doDelete.          *)

\* buildLabel reads the child's manifest only for architecture 'unknown'
buildLabel(st, p, c) ==
    IF EntryUnknownArch(p, c) THEN getManifestByDigest(st, c) ELSE st

RECURSIVE buildLabels(_, _, _, _)
buildLabels(st, p, kids, i) ==
    IF st.failed \/ i > Len(kids) THEN st
    ELSE buildLabels(buildLabel(st, p, kids[i]), p, kids, i + 1)

parentsOf(used, c) == {x[2] : x \in {y \in used : y[1] = c}}

RECURSIVE deleteImage(_, _, _, _, _)
RECURSIVE deleteChildren(_, _, _, _, _, _)
RECURSIVE deleteReferrers(_, _, _, _, _, _, _)

\* the loop over manifest.manifests of deleteImage
deleteChildren(st, cfg, pk, p, kids, i) ==
    IF st.failed \/ i > Len(kids) THEN st
    ELSE LET c == kids[i]
             manifestPackage == getPackageByDigest(pk, c)
             parents == parentsOf(st.usedBy, c)
             s1 == deletePackageVersion(buildLabel(st, p, c), cfg.dryRun,
                                        manifestPackage.id, c, "child")
             next ==
               IF manifestPackage = NoPackage \/ c \in st.deleted \/ parents = {}
               THEN st
               ELSE IF parents = {p}
               THEN IF s1.failed THEN s1
                    ELSE [s1 EXCEPT !.deleted = @ \cup {c},
                                    !.usedBy = {x \in @ : x[1] # c}]
               ELSE [st EXCEPT !.usedBy = @ \ {<<c, p>>}]
         IN  deleteChildren(next, cfg, pk, p, kids, i + 1)

\* the loop over the tags of deleteImage (referrers / cosign)
deleteReferrers(st, cfg, pk, ex, d, tags, i) ==
    IF st.failed \/ i > Len(tags) THEN st
    ELSE LET tag == tags[i]
             manifestDigest == getDigestByTag(pk, tag)
             next ==
               IF startsWith(tag, digestTag(d)) /\ ~SeqHas(ex, digestTag(d))
                  /\ manifestDigest # Null
               THEN deleteImage(st, cfg, pk, ex, manifestDigest)
               ELSE st
         IN  deleteReferrers(next, cfg, pk, ex, d, tags, i + 1)

\* deleteImage up to the loop over the tags: the version itself, then its
\* children
deleteOwn(st, cfg, pk, d) ==
    LET ghPackage == getPackageByDigest(pk, d)
        s0 == getManifestByDigest(st, d)
        s1 == deletePackageVersion(s0, cfg.dryRun, ghPackage.id, d, "image")
        s2 == IF s1.failed THEN s1
              ELSE [s1 EXCEPT !.deleted = @ \cup {d}]
    IN  IF IsIndex(d)
        THEN deleteChildren(s2, cfg, pk, d, Children(d), 1)
        ELSE s2

\* deleteImage without the test of the deleted set
deleteImage_NoGuard(st, cfg, pk, ex, d) ==
    IF st.failed THEN st
    ELSE deleteReferrers(deleteOwn(st, cfg, pk, d), cfg, pk, ex, d,
                         getTags(pk), 1)

deleteImage(st, cfg, pk, ex, d) ==
    IF st.failed \/ d \in st.deleted THEN st
    ELSE deleteReferrers(deleteOwn(st, cfg, pk, d), cfg, pk, ex, d,
                         getTags(pk), 1)

RECURSIVE primeReferrers(_, _)
primeReferrers(st, refs) ==
    IF st.failed \/ refs = <<>> THEN st
    ELSE LET r == Head(refs)
             s1 == getManifestByDigest(st, r)
             s2 == IF IsIndex(r) THEN buildLabels(s1, r, Children(r), 1) ELSE s1
         IN  primeReferrers(s2, Tail(refs))

RECURSIVE primeManifests(_, _, _)
primeManifests(st, pk, dset) ==
    IF st.failed \/ dset = <<>> THEN st
    ELSE LET d == Head(dset)
             s1 == getManifestByDigest(st, d)
             s2 == IF IsIndex(d) THEN buildLabels(s1, d, Children(d), 1) ELSE s1
             s3 == primeReferrers(s2, referrersOf(pk, d))
         IN  primeManifests(s3, pk, Tail(dset))

RECURSIVE deleteImages(_, _, _, _, _)
deleteImages(st, cfg, pk, ex, dset) ==
    IF st.failed \/ dset = <<>> THEN st
    ELSE deleteImages(deleteImage(st, cfg, pk, ex, Head(dset)), cfg, pk, ex,
                      Tail(dset))

doDelete(st, cfg, pk, ex, dset) ==
    deleteImages(primeManifests(st, pk, dset), cfg, pk, ex, dset)

-----------------------------------------------------------------------------
(* Registry.putManifest and CleanupTask.deleteByTag.                         *)

\* the digest of the clone of d's manifest with manifests[] / layers[] emptied
substituteDigest(d) == IF IsFake(d) THEN d ELSE FakeDigest(d)

\* putManifest without the dry-run guard
putManifest_NoDryRun(st, dryRun, tag, from) ==
    IF st.failed THEN st
    ELSE IF tag \in st.badPuts
    THEN [st EXCEPT !.failed = TRUE, !.putErrors = Append(@, tag)]
    ELSE LET d == substituteDigest(from)
         IN  [st EXCEPT
                !.reg = RegPut(@, st.nextId, tag, d),
                !.nextId = IF d \in RegDigests(st.reg) THEN @ ELSE @ + 1,
                !.puts = Append(@, [tag |-> tag, from |-> from, digest |-> d])]

\* the PUT either lands (RegPut) or is answered with an error, which
\* putManifest throws again
putManifest(st, dryRun, tag, from) ==
    IF st.failed \/ dryRun THEN st
    ELSE IF tag \in st.badPuts
    THEN [st EXCEPT !.failed = TRUE, !.putErrors = Append(@, tag)]
    ELSE LET d == substituteDigest(from)
         IN  [st EXCEPT
                !.reg = RegPut(@, st.nextId, tag, d),
                !.nextId = IF d \in RegDigests(st.reg) THEN @ ELSE @ + 1,
                !.puts = Append(@, [tag |-> tag, from |-> from, digest |-> d])]

\* the tags of the filterSet digests that match delete-tags
matchTags(cfg, pk, fs) ==
    Flatten([i \in 1..Len(fs) |->
                SelectSeq(getPackageByDigest(pk, fs[i]).tags,
                          LAMBDA t : t \in cfg.deleteTags)])

\* the pre scan: matched tags, not excluded, by the number of tags of their version
tagsWith(pk, ex, tags, multi) ==
    SelectSeq(tags, LAMBDA t :
        /\ ~SeqHas(ex, t)
        /\ getDigestByTag(pk, t) # Null
        /\ LET n == Len(getPackageByDigest(pk, getDigestByTag(pk, t)).tags)
           IN  IF multi THEN n > 1 ELSE n = 1)

\* the untag loop deleting the version the tag pointed at before the upload
RECURSIVE untagLoop_DeletesOriginal(_, _, _, _, _, _)
untagLoop_DeletesOriginal(st, cfg, pk, tags, i, standard) ==
    IF st.failed \/ i > Len(tags)
    THEN [st |-> st, packages |-> pk, standard |-> standard]
    ELSE LET tag == tags[i]
             manifestDigest == getDigestByTag(pk, tag)
             ghPackage == getPackageByDigest(pk, manifestDigest)
             s1 == getManifestByDigest(st, manifestDigest)
             s2 == putManifest(s1, cfg.dryRun, tag, manifestDigest)
             pk2 == s2.reg
             s3 == deletePackageVersion(s2, cfg.dryRun, ghPackage.id,
                                        manifestDigest, "untag")
         IN  IF manifestDigest = Null
             THEN untagLoop_DeletesOriginal(st, cfg, pk, tags, i + 1, standard)
             ELSE IF Len(ghPackage.tags) = 1
             THEN untagLoop_DeletesOriginal(st, cfg, pk, tags, i + 1,
                                            SeqAdd(standard, tag))
             ELSE untagLoop_DeletesOriginal(s3, cfg,
                                            IF s2.failed THEN pk ELSE pk2,
                                            tags, i + 1, standard)

\* the loop over untaggingTags; pk is the listing of the latest loadPackages
RECURSIVE untagLoop(_, _, _, _, _, _)
untagLoop(st, cfg, pk, tags, i, standard) ==
    IF st.failed \/ i > Len(tags)
    THEN [st |-> st, packages |-> pk, standard |-> standard]
    ELSE LET tag == tags[i]
             manifestDigest == getDigestByTag(pk, tag)
             ghPackage == getPackageByDigest(pk, manifestDigest)
             s1 == getManifestByDigest(st, manifestDigest)
             s2 == putManifest(s1, cfg.dryRun, tag, manifestDigest)
             pk2 == s2.reg
             untaggedDigest == getDigestByTag(pk2, tag)
             id == getIdByDigest(pk2, untaggedDigest)
             s3 == IF untaggedDigest # Null /\ id # Null
                   THEN deletePackageVersion(s2, cfg.dryRun, id, untaggedDigest,
                                             "untag")
                   ELSE s2
         IN  IF manifestDigest = Null
             THEN untagLoop(st, cfg, pk, tags, i + 1, standard)
             ELSE IF Len(ghPackage.tags) = 1
             THEN untagLoop(st, cfg, pk, tags, i + 1, SeqAdd(standard, tag))
             ELSE untagLoop(s3, cfg, IF s2.failed THEN pk ELSE pk2, tags, i + 1,
                            standard)

\* deleteSet.add / filterSet.delete of the digest of each standard tag
standardDeletes(pk, standard) ==
    SelectSeq([j \in 1..Len(standard) |-> getDigestByTag(pk, standard[j])],
              LAMBDA x : x # Null)

\* the task fields as a record, for the handlers that may reload
Fields(st, pk, tags, ex, fs, dset) ==
    [st |-> st, packages |-> pk, tagsInUse |-> tags, excludeTags |-> ex,
     filterSet |-> fs, deleteSet |-> dset]

\* deleteByTag that forgets the tags which became standard while untagging
deleteByTag_StaleStandard(st, cfg, pk, tags, ex, fs, dset) ==
    LET matched == matchTags(cfg, pk, fs)
        untaggingTags == tagsWith(pk, ex, matched, TRUE)
        standardTags == tagsWith(pk, ex, matched, FALSE)
        ul == untagLoop(st, cfg, pk, untaggingTags, 1, standardTags)
        rl == IF Len(untaggingTags) > 0 /\ ~ul.st.failed
              THEN reload(ul.st, cfg)
              ELSE Fields(ul.st, ul.packages, tags, ex, fs, dset)
        mv == moveToDelete(rl.filterSet, rl.deleteSet,
                           standardDeletes(rl.packages, standardTags))
    IN  IF cfg.deleteTags = {} \/ Len(matched) = 0 \/ rl.st.failed
        THEN Fields(rl.st, rl.packages, rl.tagsInUse, rl.excludeTags,
                    rl.filterSet, rl.deleteSet)
        ELSE Fields(rl.st, rl.packages, rl.tagsInUse, rl.excludeTags,
                    mv.filterSet, mv.deleteSet)

deleteByTag(st, cfg, pk, tags, ex, fs, dset) ==
    LET matched == matchTags(cfg, pk, fs)
        untaggingTags == tagsWith(pk, ex, matched, TRUE)
        standardTags == tagsWith(pk, ex, matched, FALSE)
        ul == untagLoop(st, cfg, pk, untaggingTags, 1, standardTags)
        rl == IF Len(untaggingTags) > 0 /\ ~ul.st.failed
              THEN reload(ul.st, cfg)
              ELSE Fields(ul.st, ul.packages, tags, ex, fs, dset)
        mv == moveToDelete(rl.filterSet, rl.deleteSet,
                           standardDeletes(rl.packages, ul.standard))
    IN  IF cfg.deleteTags = {} \/ Len(matched) = 0 \/ rl.st.failed
        THEN Fields(rl.st, rl.packages, rl.tagsInUse, rl.excludeTags,
                    rl.filterSet, rl.deleteSet)
        ELSE Fields(rl.st, rl.packages, rl.tagsInUse, rl.excludeTags,
                    mv.filterSet, mv.deleteSet)

-----------------------------------------------------------------------------
(* CleanupTask.validate: the warnings it prints.                             *)

RECURSIVE validateLoop(_, _, _, _, _)
validateLoop(pk, ds, i, removed, warns) ==
    IF i > Len(ds) THEN warns
    ELSE IF ds[i] \in removed \/ ~IsIndex(ds[i])
         THEN validateLoop(pk, ds, i + 1, removed, warns)
         ELSE LET kids == Range(Children(ds[i]))
              IN  validateLoop(pk, ds, i + 1, removed \cup kids,
                     warns \cup {[kind |-> "child", digest |-> c, tag |-> Dummy] :
                                   c \in {k \in kids : getIdByDigest(pk, k) = Null}})

validate(pk, tags) ==
    validateLoop(pk, getDigests(pk), 1, {}, {})
    \cup {[kind |-> "referrer", digest |-> subjectDigest(t), tag |-> t] :
            t \in {u \in Range(tags) :
                     isShaTag(u) /\ getIdByDigest(pk, subjectDigest(u)) = Null}}

-----------------------------------------------------------------------------
(* The task as a state machine: main.run creates the task, calls init,       *)
(* reload and run; run calls the configured stages in a fixed order.         *)

Stages == <<"byTag", "structural", "orphaned", "keepTagged", "untagged",
            "doDelete", "validate">>

StageEnabled(cfg, s) ==
    CASE s = "byTag"      -> cfg.deleteTags # {}
      [] s = "structural" -> cfg.deletePartialImages \/ cfg.deleteGhostImages
      [] s = "orphaned"   -> cfg.deleteOrphanedImages
      [] s = "keepTagged" -> cfg.keepNtagged # Unset
      [] s = "untagged"   -> cfg.keepNuntagged # Unset \/ cfg.deleteUntagged
      [] s = "doDelete"   -> TRUE
      [] s = "validate"   -> cfg.validate

\* the first configured stage after position k of Stages
RECURSIVE StageAfter(_, _)
StageAfter(cfg, k) ==
    IF k >= Len(Stages) THEN "done"
    ELSE IF StageEnabled(cfg, Stages[k + 1]) THEN Stages[k + 1]
    ELSE StageAfter(cfg, k + 1)

StageIndex(s) == CHOOSE k \in 1..Len(Stages) : Stages[k] = s

\* where the task goes after stage s, given the working record it ended with
Goto(st, s) ==
    IF st.failed THEN "failed"
    ELSE IF s = "reload" THEN StageAfter(config, 0)
    ELSE StageAfter(config, StageIndex(s))

St == [reg |-> reg, nextId |-> nextId, lastDeleteResult |-> lastDeleteResult,
       calls |-> calls, puts |-> puts, failed |-> failed,
       putErrors |-> putErrors, badPuts |-> {}, auth |-> authorization,
       cache |-> manifestCache, fetches |-> fetches,
       deleted |-> deleted, usedBy |-> digestUsedBy]

Commit(st) ==
    /\ reg' = st.reg
    /\ nextId' = st.nextId
    /\ lastDeleteResult' = st.lastDeleteResult
    /\ calls' = st.calls
    /\ puts' = st.puts
    /\ putErrors' = st.putErrors
    /\ failed' = st.failed
    /\ manifestCache' = st.cache
    /\ fetches' = st.fetches
    /\ deleted' = st.deleted
    /\ digestUsedBy' = st.usedBy

CommitFields(f) ==
    /\ Commit(f.st)
    /\ packages' = f.packages
    /\ tagsInUse' = f.tagsInUse
    /\ excludeTags' = f.excludeTags
    /\ filterSet' = f.filterSet
    /\ deleteSet' = f.deleteSet

CommitSets(r) ==
    /\ filterSet' = r.filterSet
    /\ deleteSet' = r.deleteSet
    /\ UNCHANGED <<reg, nextId, lastDeleteResult, calls, puts, putErrors, failed,
                   manifestCache, fetches, deleted, digestUsedBy, packages,
                   tagsInUse, excludeTags>>

Init ==
    /\ config \in Configs
    /\ reg \in Fixtures
    /\ reg0 = reg
    /\ nextId = FakeBase
    /\ packages = <<>>
    /\ tagsInUse = <<>>
    /\ excludeTags = <<>>
    /\ filterSet = <<>>
    /\ deleteSet = <<>>
    /\ digestUsedBy = {}
    /\ deleted = {}
    /\ manifestCache = {}
    /\ fetches = <<>>
    /\ lastDeleteResult = TRUE
    /\ calls = <<>>
    /\ puts = <<>>
    /\ putErrors = <<>>
    /\ warnings = {}
    /\ failed = FALSE
    /\ processed = <<"p">>
    /\ stack = <<>>
    /\ authorization = FALSE
    /\ pc = "init"

\* what the registry answers to the request login opens with: "challenge" is
\* 401 with a valid www-authenticate header and a token granted for it,
\* "status" a response with any other error status, "network" no response at
\* all (connection refused, timeout)
LoginResponses == {"challenge", "status", "network"}

\* CleanupTask.init: Registry.login resets the manifest cache and asks for a
\* token.  An error that carries a response with another status is thrown
\* again; an error without a response leaves the catch block with nothing
\* thrown and no token set.
Login ==
    /\ pc = "init"
    /\ manifestCache' = {}
    /\ \E resp \in LoginResponses :
          /\ authorization' = (resp = "challenge")
          /\ failed' = (resp = "status")
          /\ pc' = IF resp = "status" THEN "failed" ELSE "reload"
    /\ UNCHANGED <<stack, config, processed, reg, nextId, packages, tagsInUse,
                   excludeTags, filterSet, deleteSet, digestUsedBy, deleted,
                   fetches, lastDeleteResult, calls, puts, putErrors, reg0,
                   warnings>>

Reload ==
    /\ pc = "reload"
    /\ \E f \in {reload(St, config)} :
          CommitFields(f) /\ pc' = Goto(f.st, "reload")
    /\ UNCHANGED <<authorization, stack, config, processed, reg0, warnings>>

DeleteByTag ==
    /\ pc = "byTag"
    /\ \E bad \in PutErrorChoices :
       \E f \in {deleteByTag([St EXCEPT !.badPuts = bad], config, packages,
                               tagsInUse, excludeTags, filterSet, deleteSet)} :
          CommitFields(f) /\ pc' = Goto(f.st, "byTag")
    /\ UNCHANGED <<authorization, stack, config, processed, reg0, warnings>>

DeletePartialImages ==
    /\ pc = "structural"
    /\ config.deletePartialImages
    /\ CommitSets(deletePartialImages(packages, filterSet, deleteSet))
    /\ pc' = Goto(St, "structural")
    /\ UNCHANGED <<authorization, stack, config, processed, reg0, warnings>>

DeleteGhostImages ==
    /\ pc = "structural"
    /\ ~config.deletePartialImages
    /\ config.deleteGhostImages
    /\ CommitSets(deleteGhostImages(packages, filterSet, deleteSet))
    /\ pc' = Goto(St, "structural")
    /\ UNCHANGED <<authorization, stack, config, processed, reg0, warnings>>

DeleteOrphanedImages ==
    /\ pc = "orphaned"
    /\ CommitSets(deleteOrphanedImages(packages, filterSet, deleteSet))
    /\ pc' = Goto(St, "orphaned")
    /\ UNCHANGED <<authorization, stack, config, processed, reg0, warnings>>

KeepNtagged ==
    /\ pc = "keepTagged"
    /\ CommitSets(keepNtagged(config, packages, filterSet, deleteSet))
    /\ pc' = Goto(St, "keepTagged")
    /\ UNCHANGED <<authorization, stack, config, processed, reg0, warnings>>

KeepNuntagged ==
    /\ pc = "untagged"
    /\ config.keepNuntagged # Unset
    /\ CommitSets(keepNuntagged(config, packages, filterSet, deleteSet))
    /\ pc' = Goto(St, "untagged")
    /\ UNCHANGED <<authorization, stack, config, processed, reg0, warnings>>

DeleteUntagged ==
    /\ pc = "untagged"
    /\ config.keepNuntagged = Unset
    /\ config.deleteUntagged
    /\ CommitSets(deleteUntagged(packages, filterSet, deleteSet))
    /\ pc' = Goto(St, "untagged")
    /\ UNCHANGED <<authorization, stack, config, processed, reg0, warnings>>

DoDelete ==
    /\ pc = "doDelete"
    /\ \E st \in {doDelete(St, config, packages, excludeTags, deleteSet)} :
          Commit(st) /\ pc' = Goto(st, "doDelete")
    /\ UNCHANGED <<authorization, stack, config, processed, packages,
                   tagsInUse, excludeTags, filterSet, deleteSet, reg0,
                   warnings>>

\* validate reporting its findings with core.setFailed instead of core.warning
Validate_SetFailed ==
    /\ pc = "validate"
    /\ \E f \in {reload(St, config)} :
          LET w == IF f.st.failed THEN warnings
                   ELSE validate(f.packages, f.tagsInUse)
              g == [f EXCEPT !.st.failed = f.st.failed \/ w # {}]
          IN  /\ CommitFields(g)
              /\ pc' = Goto(g.st, "validate")
              /\ warnings' = w
    /\ UNCHANGED <<authorization, stack, config, processed, reg0>>

\* the validation task of run: reload, then validate
Validate ==
    /\ pc = "validate"
    /\ \E f \in {reload(St, config)} :
          /\ CommitFields(f)
          /\ pc' = Goto(f.st, "validate")
          /\ warnings' = IF f.st.failed THEN warnings
                         ELSE validate(f.packages, f.tagsInUse)
    /\ UNCHANGED <<authorization, stack, config, processed, reg0>>

\* the loop without await: the next task is started while the current one runs
NextPackage_NoAwait ==
    /\ pc \notin {"failed", "repo"}
    /\ Len(processed) < MaxPackages
    /\ \E name \in {"p", "q"} :
          /\ name = "p" => processed[Len(processed)] = "p"
          /\ processed' = Append(processed, name)
          /\ reg' = IF name = processed[Len(processed)] THEN reg ELSE FixOther
    /\ reg0' = reg'
    /\ packages' = <<>>
    /\ tagsInUse' = <<>>
    /\ excludeTags' = <<>>
    /\ filterSet' = <<>>
    /\ deleteSet' = <<>>
    /\ digestUsedBy' = {}
    /\ deleted' = {}
    /\ manifestCache' = {}
    /\ fetches' = <<>>
    /\ lastDeleteResult' = TRUE
    /\ calls' = <<>>
    /\ puts' = <<>>
    /\ putErrors' = <<>>
    /\ warnings' = {}
    /\ pc' = "init"
    /\ authorization' = FALSE
    /\ UNCHANGED <<stack, config, nextId, failed>>

\* main: the for loop over targetPackages takes the next package once the
\* awaited task of the current one has returned, and constructs a new
\* CleanupTask (with a new Registry and a new PackageRepo) for it.  The next
\* target is the same package again or the second package of the repository.
NextPackage ==
    /\ pc = "done"
    /\ Len(processed) < MaxPackages
    /\ \E name \in {"p", "q"} :
          /\ name = "p" => processed[Len(processed)] = "p"
          /\ processed' = Append(processed, name)
          /\ reg' = IF name = processed[Len(processed)] THEN reg ELSE FixOther
    /\ reg0' = reg'
    /\ packages' = <<>>
    /\ tagsInUse' = <<>>
    /\ excludeTags' = <<>>
    /\ filterSet' = <<>>
    /\ deleteSet' = <<>>
    /\ digestUsedBy' = {}
    /\ deleted' = {}
    /\ manifestCache' = {}
    /\ fetches' = <<>>
    /\ lastDeleteResult' = TRUE
    /\ calls' = <<>>
    /\ puts' = <<>>
    /\ putErrors' = <<>>
    /\ warnings' = {}
    /\ pc' = "init"
    /\ authorization' = FALSE
    /\ UNCHANGED <<stack, config, nextId, failed>>

Next ==
    \/ Login
    \/ Reload
    \/ DeleteByTag
    \/ DeletePartialImages
    \/ DeleteGhostImages
    \/ DeleteOrphanedImages
    \/ KeepNtagged
    \/ KeepNuntagged
    \/ DeleteUntagged
    \/ DoDelete
    \/ Validate
    \/ NextPackage

Spec == Init /\ [][Next]_vars

-----------------------------------------------------------------------------
(* A harness for PackageRepo alone: a client calls deletePackageVersion for  *)
(* versions of the loaded listing while versions may vanish from the         *)
(* registry behind its back (a delete answered 502 that did take effect, or  *)
(* another actor), which is what makes the API answer 404.                   *)

RepoConfigs ==
    {c \in Configs : c.deleteTags = {} /\ c.excludeTags = {} /\ c.olderThan = 0
                     /\ c.keepNtagged = Unset /\ c.keepNuntagged = Unset
                     /\ ~c.deleteGhostImages /\ ~c.deletePartialImages
                     /\ ~c.deleteOrphanedImages /\ ~c.validate
                     /\ c.deleteUntagged}

InitRepo ==
    /\ config \in RepoConfigs
    /\ reg = FixMultiTag
    /\ reg0 = reg
    /\ nextId = FakeBase
    /\ packages = reg
    /\ tagsInUse = getTags(reg)
    /\ excludeTags = <<>>
    /\ filterSet = <<>>
    /\ deleteSet = <<>>
    /\ digestUsedBy = {}
    /\ deleted = {}
    /\ manifestCache = {}
    /\ fetches = <<>>
    /\ lastDeleteResult = TRUE
    /\ calls = <<>>
    /\ puts = <<>>
    /\ putErrors = <<>>
    /\ warnings = {}
    /\ failed = FALSE
    /\ processed = <<"p">>
    /\ stack = <<>>
    /\ authorization = TRUE
    /\ pc = "repo"

RepoFrame ==
    UNCHANGED <<authorization, stack, config, processed, nextId, packages,
                tagsInUse, excludeTags, filterSet,
                deleteSet, digestUsedBy, deleted, manifestCache, fetches,
                warnings, puts, putErrors, reg0, pc>>

\* a version disappears from the registry without the client knowing
ExternalDelete ==
    /\ pc = "repo"
    /\ ~failed
    /\ \E i \in 1..Len(reg) : reg' = RegDelete(reg, reg[i].id)
    /\ UNCHANGED <<lastDeleteResult, calls, failed>>
    /\ RepoFrame

\* the client deletes a version of its listing; the API answers from its state
RepoDelete ==
    /\ pc = "repo"
    /\ ~failed
    /\ Len(calls) < MaxCalls
    /\ \E i \in 1..Len(packages) :
          LET st == deletePackageVersion(St, config.dryRun, packages[i].id,
                                         packages[i].name, "image")
          IN  /\ reg' = st.reg
              /\ lastDeleteResult' = st.lastDeleteResult
              /\ calls' = st.calls
              /\ failed' = st.failed
    /\ RepoFrame

\* the API answers the delete with an error other than 404
RepoDeleteError ==
    /\ pc = "repo"
    /\ ~failed
    /\ ~config.dryRun
    /\ Len(calls) < MaxCalls
    /\ \E i \in 1..Len(packages) :
          LET st == deletePackageVersionResp(St, config.dryRun, packages[i].id,
                                             packages[i].name, "image", "500")
          IN  /\ reg' = st.reg
              /\ lastDeleteResult' = st.lastDeleteResult
              /\ calls' = st.calls
              /\ failed' = st.failed
    /\ RepoFrame

NextRepo == ExternalDelete \/ RepoDelete \/ RepoDeleteError

SpecRepo == InitRepo /\ [][NextRepo]_vars

-----------------------------------------------------------------------------
(* doDelete followed call by call: the recursion of deleteImage is unfolded  *)
(* on an explicit call stack.  A frame of deleteImage holds the digest and   *)
(* the position i of its loop over the tags (0: the body has not begun); the *)
(* bottom frame is the loop of doDelete over deleteSet.                      *)

DeleteFixtures == {FixCycle, FixNestedReferrer, FixReferrer, FixShared1}

DeleteConfigs ==
    {c \in Configs : c.olderThan = 0 /\ c.keepNtagged = Unset
                     /\ c.keepNuntagged = Unset /\ ~c.deleteGhostImages
                     /\ ~c.deletePartialImages /\ ~c.deleteOrphanedImages
                     /\ ~c.validate}

InitDelete ==
    /\ config \in DeleteConfigs
    /\ reg \in DeleteFixtures
    /\ reg0 = reg
    /\ nextId = FakeBase
    /\ packages = <<>>
    /\ tagsInUse = <<>>
    /\ excludeTags = <<>>
    /\ filterSet = <<>>
    /\ deleteSet = <<>>
    /\ digestUsedBy = {}
    /\ deleted = {}
    /\ manifestCache = {}
    /\ fetches = <<>>
    /\ lastDeleteResult = TRUE
    /\ calls = <<>>
    /\ puts = <<>>
    /\ putErrors = <<>>
    /\ warnings = {}
    /\ failed = FALSE
    /\ processed = <<"p">>
    /\ stack = <<>>
    /\ authorization = FALSE
    /\ pc = "init"

Frame(kind, d, i) == [kind |-> kind, d |-> d, i |-> i]

Top == stack[Len(stack)]

Pop == SubSeq(stack, 1, Len(stack) - 1)

SetTop(f) == [stack EXCEPT ![Len(stack)] = f]

PlanFrame ==
    UNCHANGED <<authorization, config, processed, packages, tagsInUse,
                excludeTags, filterSet,
                deleteSet, reg0, warnings>>

TaskFrame ==
    UNCHANGED <<reg, nextId, lastDeleteResult, calls, puts, putErrors, failed,
                manifestCache, fetches, deleted, digestUsedBy>>

\* doDelete: primeManifests, then the loop over deleteSet begins
DelStart ==
    /\ pc = "doDelete"
    /\ \E st \in {primeManifests(St, packages, deleteSet)} :
          /\ Commit(st)
          /\ pc' = IF st.failed THEN "failed" ELSE "deleting"
          /\ stack' = IF st.failed THEN <<>>
                      ELSE <<Frame("doDelete", Null, 1)>>
    /\ PlanFrame

\* doDelete: one turn of the loop over deleteSet calls deleteImage
DelNext ==
    /\ pc = "deleting"
    /\ Top.kind = "doDelete"
    /\ IF Top.i > Len(deleteSet)
       THEN stack' = <<>> /\ pc' = Goto(St, "doDelete")
       ELSE /\ Len(stack) < MaxDepth
            /\ stack' = Append(SetTop(Frame("doDelete", Null, Top.i + 1)),
                               Frame("deleteImage", deleteSet[Top.i], 0))
            /\ pc' = pc
    /\ PlanFrame
    /\ TaskFrame

\* deleteImage without the test of the deleted set
DelEnter_NoGuard ==
    /\ pc = "deleting"
    /\ Top.kind = "deleteImage"
    /\ Top.i = 0
    /\ \E st \in {deleteOwn(St, config, packages, Top.d)} :
          /\ Commit(st)
          /\ pc' = IF st.failed THEN "failed" ELSE pc
          /\ stack' = IF st.failed THEN <<>>
                      ELSE SetTop(Frame("deleteImage", Top.d, 1))
    /\ PlanFrame

\* deleteImage: returns at once for a digest of the deleted set; otherwise
\* deletes the version and its children and comes to the loop over the tags.
\* An exception unwinds the whole stack.
DelEnter ==
    /\ pc = "deleting"
    /\ Top.kind = "deleteImage"
    /\ Top.i = 0
    /\ IF Top.d \in deleted
       THEN stack' = Pop /\ pc' = pc /\ TaskFrame
       ELSE \E st \in {deleteOwn(St, config, packages, Top.d)} :
               /\ Commit(st)
               /\ pc' = IF st.failed THEN "failed" ELSE pc
               /\ stack' = IF st.failed THEN <<>>
                           ELSE SetTop(Frame("deleteImage", Top.d, 1))
    /\ PlanFrame

\* deleteImage: one turn of the loop over the tags; a tag that starts with the
\* digest tag of this image makes the recursive call
DelReferrer ==
    /\ pc = "deleting"
    /\ Top.kind = "deleteImage"
    /\ Top.i >= 1
    /\ Top.i <= Len(getTags(packages))
    /\ LET tag == getTags(packages)[Top.i]
           manifestDigest == getDigestByTag(packages, tag)
           up == SetTop(Frame("deleteImage", Top.d, Top.i + 1))
       IN  IF /\ startsWith(tag, digestTag(Top.d))
              /\ ~SeqHas(excludeTags, digestTag(Top.d))
              /\ manifestDigest # Null
           THEN /\ Len(stack) < MaxDepth
                /\ stack' = Append(up, Frame("deleteImage", manifestDigest, 0))
           ELSE stack' = up
    /\ pc' = pc
    /\ PlanFrame
    /\ TaskFrame

\* deleteImage: the loop over the tags is over, the call returns
DelReturn ==
    /\ pc = "deleting"
    /\ Top.kind = "deleteImage"
    /\ Top.i > Len(getTags(packages))
    /\ stack' = Pop
    /\ pc' = pc
    /\ PlanFrame
    /\ TaskFrame

\* the steps of the loop of doDelete and of the calls of deleteImage under it
Deleting == DelNext \/ DelEnter \/ DelReferrer \/ DelReturn

NextDelete ==
    \/ Login
    \/ Reload
    \/ DeleteByTag
    \/ DeleteUntagged
    \/ DelStart
    \/ Deleting

\* the runtime runs the loop of doDelete on: a step of it that can be taken
\* is not put off for ever
SpecDelete == InitDelete /\ [][NextDelete]_vars /\ WF_vars(Deleting)

-----------------------------------------------------------------------------
(* Properties.  Helpers over the histories first.                            *)

Updated(pk, d) == getPackageByDigest(pk, d).updated_at

\* the digests the first reload leaves in filterSet for a listing
candidates(cfg, pk) ==
    olderThanFilter(cfg, pk,
        excludeFilter(pk, initFilterSet(pk, 1, {}, <<>>).filterSet,
                      matchExclude(cfg, getTags(pk))))

\* the tags the untag protocol took off version v so far
UntaggedFrom(v) == {puts[k].tag : k \in {j \in 1..Len(puts) : puts[j].from = v}}

\* every index of the registry lists only digests that exist as versions
Complete(r) ==
    \A d \in RegDigests(r) : IsIndex(d) => Range(Children(d)) \subseteq RegDigests(r)

\* a DELETE request was sent for call k
Issued(k) == calls[k].resp # "none"

\* C1: the digest a tag matching exclude-tags points at is never in deleteSet
C1_ExcludedNeverSelected ==
    \A t \in Range(getTags(packages)) :
        t \in config.excludeTags => ~SeqHas(deleteSet, getDigestByTag(packages, t))

\* C2: a version deleted as a child of an index is not listed by any index
\* that still exists
C2_SharedChildRetained ==
    \A k \in 1..Len(calls) :
        (calls[k].kind = "child" /\ calls[k].outcome = "ok")
        => ~\E q \in RegDigests(reg) :
               IsIndex(q) /\ SeqHas(Children(q), calls[k].name)

\* C3: no DELETE request is sent for a version that carries a tag matching
\* exclude-tags
C3_ExcludedNeverDeleted ==
    \A k \in 1..Len(calls) :
        Issued(k) => RegTagsOf(reg0, calls[k].name) \cap config.excludeTags = {}

\* C4: if every index listed only existing digests before the run, every
\* surviving index lists only existing digests after it
C4_IndexesStayComplete ==
    (pc = "done" /\ Complete(reg0)) => Complete(reg)

\* C5: with dry-run the versions and the tags of the registry never change,
\* and no DELETE and no PUT request is sent
C5_DryRunFrame ==
    config.dryRun =>
        /\ reg = reg0
        /\ puts = <<>>
        /\ \A k \in 1..Len(calls) : ~Issued(k)

C5_Witness ==
    /\ config.dryRun
    /\ pc = "done"
    /\ \E k \in 1..Len(calls) : calls[k].kind = "untag"
    /\ \E k \in 1..Len(calls) : calls[k].kind = "image"

\* C6: after tag t was untagged from version v (which had at least two tags),
\* t resolves to nothing, the substitute version is deleted again, and v
\* exists until the deletion phase with exactly its tags minus the untagged ones
C6_UntagProtocol ==
    \A k \in 1..Len(puts) :
        LET v == puts[k].from
        IN  /\ Cardinality(RegTagsOf(reg0, v)) >= 2
            /\ getDigestByTag(reg, puts[k].tag) = Null
            /\ puts[k].digest \notin RegDigests(reg)
            /\ \E j \in 1..Len(calls) :
                   /\ calls[j].kind = "untag"
                   /\ calls[j].name = puts[k].digest
                   /\ calls[j].outcome = "ok"
            /\ (pc \notin {"validate", "done", "failed"} => v \in RegDigests(reg))
            /\ (v \in RegDigests(reg)
                  => /\ RegTagsOf(reg, v) = RegTagsOf(reg0, v) \ UntaggedFrom(v)
                     /\ getIdByDigest(reg, v) = getIdByDigest(reg0, v))

C6_Witness ==
    /\ pc = "done"
    /\ Len(puts) = 2
    /\ puts[1].from = 9 /\ puts[2].from = 9
    /\ RegTagsOf(reg, 9) = {TagC}

\* C7: a multi-tagged candidate all of whose tags match delete-tags is deleted
\* by the run, after every untag, with all tags but one untagged; one with an
\* unmatched tag is neither selected nor deleted by the delete-tags stage
C7_AllTagsDeleted ==
    /\ (pc = "done" /\ ~config.dryRun)
         => \A i \in 1..Len(reg0) :
              (/\ Len(reg0[i].tags) >= 2
               /\ SeqHas(candidates(config, reg0), reg0[i].name)
               /\ Range(reg0[i].tags) \subseteq config.deleteTags)
              => /\ reg0[i].name \notin RegDigests(reg)
                 /\ Cardinality(UntaggedFrom(reg0[i].name)) = Len(reg0[i].tags) - 1
                 /\ \E j \in 1..Len(calls) :
                        /\ calls[j].kind = "image"
                        /\ calls[j].id = reg0[i].id
                        /\ calls[j].outcome = "ok"
                        /\ \A m \in 1..Len(calls) :
                               calls[m].kind = "untag" => m < j
    /\ (config.deleteTags # {} /\ pc = StageAfter(config, 1))
         => \A i \in 1..Len(reg0) :
              (Len(reg0[i].tags) >= 2
               /\ ~(Range(reg0[i].tags) \subseteq config.deleteTags))
              => /\ ~SeqHas(deleteSet, reg0[i].name)
                 /\ reg0[i].name \in RegDigests(reg)
                 /\ RegTagsOf(reg, reg0[i].name) # {}

C7_Witness ==
    /\ pc = "done"
    /\ ~config.dryRun
    /\ reg0 = FixMultiTagIndex
    /\ config.deleteTags = {TagA, TagB}
    /\ Len(puts) = 1
    /\ 1 \notin RegDigests(reg)

\* C8: a 404 answer to the DELETE that follows a successful DELETE is
\* swallowed and the run goes on; a 404 answer to the DELETE that follows a
\* swallowed 404 is thrown and fails the run
C8_Delete404 ==
    \A k \in 2..Len(calls) :
        calls[k].resp = "404" =>
            /\ calls[k - 1].outcome = "ok" => calls[k].outcome = "ignored"
            /\ calls[k - 1].outcome = "ignored"
                 => (calls[k].outcome = "thrown" /\ failed /\ k = Len(calls))
            /\ calls[k].outcome = "ignored" => (k < Len(calls) \/ ~failed)

C8_Witness ==
    /\ Len(calls) >= 3
    /\ calls[Len(calls) - 2].outcome = "ok"
    /\ calls[Len(calls) - 1].outcome = "ignored"
    /\ calls[Len(calls)].resp = "404"
    /\ calls[Len(calls)].outcome = "thrown"
    /\ failed

\* C9 as stated: at most |excluded tagged| + N tagged versions survive
TaggedIn(r) == {i \in 1..Len(r) : Len(r[i].tags) > 0}

ExcludedTaggedIn(r) ==
    {i \in 1..Len(r) : Range(r[i].tags) \cap config.excludeTags # {}}

\* and those without an excluded tag are the N most recent
SurvivingPlain ==
    {i \in TaggedIn(reg0) \ ExcludedTaggedIn(reg0) : reg0[i].name \in RegDigests(reg)}

DeletedPlain ==
    {i \in TaggedIn(reg0) \ ExcludedTaggedIn(reg0) : reg0[i].name \notin RegDigests(reg)}

C9_AtMostNTaggedSurvive ==
    (pc = "done" /\ ~config.dryRun /\ config.keepNtagged # Unset)
    => /\ Cardinality(TaggedIn(reg))
            <= Cardinality(ExcludedTaggedIn(reg0)) + config.keepNtagged
       /\ Cardinality(SurvivingPlain) <= config.keepNtagged
       /\ \A i \in SurvivingPlain : \A j \in DeletedPlain :
              reg0[i].updated_at >= reg0[j].updated_at

\* C9 amended: the keep-n-tagged stage keeps the N most recently updated of
\* the tagged digests in filterSet and moves exactly the others to deleteSet;
\* digests outside filterSet are not touched; what is in deleteSet is gone
\* from the registry when a run without dry-run is done
TaggedCandidates == {d \in Range(filterSet) : Len(getPackageByDigest(packages, d).tags) > 0}

C9_KeepNewestCandidates ==
    /\ [][pc = "keepTagged" =>
            LET kept == TaggedCandidates \cap Range(filterSet')
                evicted == TaggedCandidates \ Range(filterSet')
            IN  /\ Cardinality(kept) <= config.keepNtagged
                /\ (evicted # {} => Cardinality(kept) = config.keepNtagged)
                /\ \A a \in kept : \A b \in evicted :
                       Updated(packages, a) >= Updated(packages, b)
                /\ Range(deleteSet') = Range(deleteSet) \cup evicted
                /\ Range(filterSet') = Range(filterSet) \ evicted]_vars
    /\ []((pc \in {"validate", "done"} /\ ~config.dryRun)
            => Range(deleteSet) \cap RegDigests(reg) = {})

C9_Witness ==
    /\ pc = "done"
    /\ ~config.dryRun
    /\ ~config.validate
    /\ config.keepNtagged = 1
    /\ config.excludeTags = {Dummy}
    /\ reg0 = FixKeep
    /\ RegDigests(reg) \cap {9, 10, 7, 8} = {9, 7}

\* C10: with older-than set, no digest updated at or after the cut-off is in
\* deleteSet
C10_YoungNeverSelected ==
    config.olderThan # 0 =>
        \A d \in Range(deleteSet) : Updated(packages, d) < cutOff(config)

\* the task runs on the package the previous, completed task ran on
SecondRun ==
    /\ Len(processed) >= 2
    /\ processed[Len(processed)] = processed[Len(processed) - 1]

\* C11: a second run on the state a completed run without dry-run left, with
\* the same configuration, selects nothing: its deleteSet stays empty
C11_SecondRunSelectsNothing ==
    (SecondRun /\ ~config.dryRun) => deleteSet = <<>>

\* the digests for which deletePackageVersion was called
CalledFor(st) == {st.calls[k].name : k \in 1..Len(st.calls)}

\* C12: where the untagged stage runs, keep-n-untagged=0 and
\* delete-untagged=true select the same digests, and deleting either
\* selection calls DeleteVersion for the same versions and leaves the same
\* registry
C12_KeepZeroIsDeleteUntagged ==
    pc = "untagged" =>
        LET k == keepNuntagged([config EXCEPT !.keepNuntagged = 0,
                                              !.deleteUntagged = FALSE],
                               packages, filterSet, deleteSet)
            u == deleteUntagged(packages, filterSet, deleteSet)
            dk == doDelete(St, config, packages, excludeTags, k.deleteSet)
            du == doDelete(St, config, packages, excludeTags, u.deleteSet)
        IN  /\ Range(k.deleteSet) = Range(u.deleteSet)
            /\ Range(k.filterSet) = Range(u.filterSet)
            /\ dk.reg = du.reg
            /\ dk.failed = du.failed
            /\ CalledFor(dk) = CalledFor(du)

\* keep-n-untagged=0 has deleted several untagged versions, which the sort
\* by date had put into another order than the listing
C12_Witness ==
    /\ pc = "done"
    /\ ~config.dryRun
    /\ config.keepNuntagged = 0
    /\ reg0 = FixKeep
    /\ Len(calls) >= 3
    /\ calls[1].name = 3 /\ calls[2].name = 5 /\ calls[3].name = 4

\* the tags of the package that begin with sha256-<hex(d)>
ReferrerTags(r, d) == {t \in RegAllTags(r) : startsWith(t, digestTag(d))}

\* the children of index x that no other index of r lists
OwnedChildren(r, x) ==
    {c \in Range(Children(x)) \cap RegDigests(r) :
        ~\E q \in RegDigests(r) \ {x} : IsIndex(q) /\ SeqHas(Children(q), c)}

\* C13: when version d was deleted, the target of every tag sha256-<hex(d)>...
\* outside the exclude set is deleted with the children only it owns, and the
\* target of such a tag inside the exclude set still exists
C13_ReferrersFollow ==
    (pc = "done" /\ ~config.dryRun) =>
        \A k \in 1..Len(calls) :
            (calls[k].outcome = "ok" /\ calls[k].name \in RegDigests(reg0)) =>
                \A t \in ReferrerTags(reg0, calls[k].name) :
                    LET r == RegDigestOfTag(reg0, t)
                    IN  IF t \in config.excludeTags
                        THEN r \in RegDigests(reg)
                        ELSE /\ r \notin RegDigests(reg)
                             /\ OwnedChildren(reg0, r) \cap RegDigests(reg) = {}

\* only the untagged stage is configured, as when no option is given
DefaultPolicy ==
    /\ config.deleteUntagged
    /\ config.deleteTags = {}
    /\ config.keepNtagged = Unset /\ config.keepNuntagged = Unset
    /\ ~config.deleteGhostImages /\ ~config.deletePartialImages
    /\ ~config.deleteOrphanedImages

\* version v is a child of an index of r, a referrer of a version of r, or a
\* child of such a referrer
InUseIn(r, v) ==
    \/ \E q \in RegDigests(r) : IsIndex(q) /\ SeqHas(Children(q), v)
    \/ \E s \in RegDigests(r) : \E t \in ReferrerTags(reg0, s) :
          \/ RegDigestOfTag(reg0, t) = v
          \/ SeqHas(Children(RegDigestOfTag(reg0, t)), v)

\* C14: under the default policy an untagged version that is a child of a
\* surviving index, or a referrer or referrer child of a surviving version,
\* is not deleted
C14_DefaultKeepsInUse ==
    (pc = "done" /\ DefaultPolicy) =>
        \A i \in 1..Len(reg0) :
            (reg0[i].tags = <<>> /\ InUseIn(reg, reg0[i].name))
            => reg0[i].name \in RegDigests(reg)

\* C15: with delete-partial-images every digest of filterSet the ghost stage
\* would select is selected by the partial stage, and never can both stages
\* run
C15_PartialSubsumesGhost ==
    /\ (pc = "structural" /\ config.deletePartialImages) =>
          Range(deleteGhostImages(packages, filterSet, deleteSet).deleteSet)
            \subseteq
          Range(deletePartialImages(packages, filterSet, deleteSet).deleteSet)
    /\ ~(ENABLED DeletePartialImages /\ ENABLED DeleteGhostImages)

\* the versions of r that carry an excluded tag, closed under child and
\* referrer: S grows until it is stable
RECURSIVE ProtectedFrom(_, _)
ProtectedFrom(r, S) ==
    LET kids == UNION {Range(Children(p)) : p \in {x \in S : IsIndex(x)}}
        refs == {RegDigestOfTag(r, t) :
                    t \in UNION {ReferrerTags(r, p) : p \in S}}
        T == S \cup ((kids \cup refs) \cap RegDigests(r))
    IN  IF T = S THEN S ELSE ProtectedFrom(r, T)

Protected(r) ==
    ProtectedFrom(r, {d \in RegDigests(r) :
                        RegTagsOf(r, d) \cap config.excludeTags # {}})

\* C16: after a run with keep-n-tagged=0, keep-n-untagged=0 and
\* exclude-tags=dummy only versions survive that carry the tag dummy or are a
\* child or referrer (or a child of a referrer) of such a version
C16_EverythingElseDeleted ==
    (/\ pc = "done" /\ ~config.dryRun
     /\ config.keepNtagged = 0 /\ config.keepNuntagged = 0
     /\ config.excludeTags = {Dummy} /\ config.olderThan = 0)
    => RegDigests(reg) \subseteq Protected(reg0)

C16_Witness ==
    /\ pc = "done" /\ ~config.dryRun
    /\ config.keepNtagged = 0 /\ config.keepNuntagged = 0
    /\ config.excludeTags = {Dummy}
    /\ reg0 = FixKeep
    /\ RegDigests(reg) = {7}

\* C17: within one task no digest is requested from the registry twice, and
\* every manifest that was fetched is in the cache, also after reloads
C17_FetchedOncePerDigest ==
    /\ \A i \in 1..Len(fetches) : \A j \in 1..Len(fetches) :
           fetches[i] = fetches[j] => i = j
    /\ ~failed => Range(fetches) = manifestCache

\* a task that reloaded after untagging and again for the validation
C17_Witness ==
    /\ pc = "done"
    /\ config.validate
    /\ puts # <<>>
    /\ Len(fetches) >= 3

\* C18: the task of the next package is started only by a step taken when
\* the task of the current package has returned, and that step itself sends
\* no request; every request of the histories belongs to the current package
C18_PackagesInSequence ==
    [][processed' # processed =>
          /\ pc = "done"
          /\ processed' = Append(processed, processed'[Len(processed')])
          /\ pc' = "init"
          /\ calls' = <<>> /\ puts' = <<>> /\ fetches' = <<>>
          /\ packages' = <<>>]_vars

\* the task of a second package has deleted versions
C18_Witness ==
    /\ processed = <<"p", "q">>
    /\ pc = "done"
    /\ \E k \in 1..Len(calls) : calls[k].outcome = "ok"

\* C19: the validation pass issues no package delete and no manifest put,
\* leaves the registry as it is, reports what it finds in warnings only, and
\* the run that reached it ends as a success
C19_ValidateOnlyWarns ==
    [][pc = "validate" =>
          /\ calls' = calls
          /\ puts' = puts
          /\ reg' = reg
          /\ deleteSet' = <<>>
          /\ ~failed'
          /\ pc' = "done"]_vars

\* a run that deleted versions, then validated and warned, and succeeded
C19_Witness ==
    /\ config.validate
    /\ pc = "done"
    /\ ~failed
    /\ warnings # {}
    /\ \E k \in 1..Len(calls) : calls[k].outcome = "ok"

\* the parent relation of the listed versions: p is an index that lists c,
\* and both are versions of the listing
ParentPairs(pk) ==
    {x \in Range(getDigests(pk)) \X Range(getDigests(pk)) :
        IsIndex(x[2]) /\ x[1] \in Range(Children(x[2]))}

\* C20: once reload has built the graph, and until doDelete starts taking it
\* apart, p is in usedBy[c] exactly if p is an index listing c and both are
\* listed versions, also for a child listed by two or more indexes
C20_UsedByIsParentRelation ==
    pc \in {"byTag", "structural", "orphaned", "keepTagged", "untagged",
            "doDelete"}
        => digestUsedBy = ParentPairs(packages)

\* C21: every digest a step adds to deleteSet was in filterSet, as the latest
\* reload computed it and the stages before shrank it, when it was added
C21_SelectedFromFilterSet ==
    [][\A d \in Range(deleteSet') \ Range(deleteSet) :
          IF packages' = packages
          THEN SeqHas(filterSet, d)
          ELSE SeqHas(candidates(config, packages'), d)]_vars

\* d is a top-level version of the listing: no listed index has it as a
\* child, no tag beginning with sha256-<v> of a listed version v points at it,
\* and it is not a child of the index such a tag points at
TopLevel(pk, d) ==
    LET ds == Range(getDigests(pk))
        refs == UNION {Range(referrersOf(pk, v)) : v \in ds}
    IN  /\ ~\E p \in ds : IsIndex(p) /\ d \in Range(Children(p))
        /\ d \notin refs
        /\ ~\E r \in refs : IsIndex(r) /\ d \in Range(Children(r))

\* C22: filterSet holds top-level digests only
C22_FilterSetTopLevel ==
    \A d \in Range(filterSet) : TopLevel(packages, d)

\* the indexes of the package, as the task found it, that list c
ParentsIn(r, c) == {p \in RegDigests(r) : IsIndex(p) /\ c \in Range(Children(p))}

\* C23: a delete call for a version that an index of the package lists is made
\* as a child step of deleteImage, after the delete call for one of its parents
C23_ChildAfterParent ==
    \A k \in 1..Len(calls) :
        ParentsIn(reg0, calls[k].name) # {}
        => /\ calls[k].kind = "child"
           /\ \E j \in 1..(k - 1) : calls[j].name \in ParentsIn(reg0, calls[k].name)

\* C24: a PUT refused while untagging does not abort the run: the task goes
\* on to its next stage
C24_PutFailureTolerated ==
    putErrors # <<>> => ~failed /\ pc # "failed"

\* C25: a manifest GET answered 404 (the digest is not in the registry) does
\* not fail the run
C25_MissingManifestSkipped ==
    (\E k \in 1..Len(fetches) : fetches[k] \notin RegDigests(reg0))
        => ~failed /\ pc # "failed"

\* call k is the first one for its version that the API answered with 404
First404(k) ==
    /\ calls[k].resp = "404"
    /\ ~\E j \in 1..(k - 1) : calls[j].id = calls[k].id /\ calls[j].resp = "404"

\* C26 as stated: the first 404 for a version is swallowed, whatever became
\* of the delete calls for other versions
C26_First404PerDigestSwallowed ==
    \A k \in 1..Len(calls) : First404(k) => calls[k].outcome = "ignored"

\* C26 amended: the first 404 for a version is swallowed exactly if the call
\* made just before it, for whatever version, was not a swallowed 404;
\* otherwise it is thrown and fails the run
C26_First404SwallowedOncePerStreak ==
    \A k \in 1..Len(calls) :
        First404(k) =>
            /\ calls[k].outcome = "ignored"
                   <=> (k = 1 \/ calls[k - 1].outcome # "ignored")
            /\ calls[k].outcome # "ignored"
                   => (calls[k].outcome = "thrown" /\ failed /\ k = Len(calls))

\* a swallowed 404 for one version, directly followed by the first 404 for
\* another version, which is thrown
C26_Witness ==
    /\ Len(calls) >= 2
    /\ calls[Len(calls) - 1].outcome = "ignored"
    /\ First404(Len(calls))
    /\ calls[Len(calls)].id # calls[Len(calls) - 1].id
    /\ calls[Len(calls)].outcome = "thrown"
    /\ failed

\* C27: the deletion phase reads no manifest from the registry once
\* primeManifests has returned: the GETs of the whole doDelete step are those
\* of its priming
C27_NoFetchWhileDeleting ==
    [][pc = "doDelete" =>
          LET primed == primeManifests(St, packages, deleteSet)
          IN  ~primed.failed => fetches' = primed.fetches]_vars

\* the tagged digests of fs that are older than the cut-off
OldTagged(cfg, pk, fs) ==
    {d \in Range(fs) : /\ Len(getPackageByDigest(pk, d).tags) > 0
                       /\ Updated(pk, d) < cutOff(cfg)}

\* C28: with older-than set, the keep-n-tagged step selects only versions
\* older than the cut-off, and of the tagged candidates older than the cut-off
\* it keeps the N most recent (all of them when there are at most N), however
\* many younger tagged versions the package has
C28_KeepNAmongOlderThan ==
    [][(pc = "keepTagged" /\ config.olderThan # 0) =>
          LET added == Range(deleteSet') \ Range(deleteSet)
              old == OldTagged(config, packages, filterSet)
              kept == old \cap Range(filterSet')
          IN  /\ \A d \in added : Updated(packages, d) < cutOff(config)
              /\ added = old \ kept
              /\ Cardinality(kept) =
                     IF Cardinality(old) < config.keepNtagged
                     THEN Cardinality(old) ELSE config.keepNtagged
              /\ \A d \in kept : \A e \in added :
                     Updated(packages, d) >= Updated(packages, e)]_vars

\* the package has three tagged versions younger than the cut-off and one
\* older; keep-n-tagged = 0 evicted the older one only
C28_Witness ==
    /\ config.olderThan # 0
    /\ config.keepNtagged = 0
    /\ reg0 = FixKeep
    /\ pc = "doDelete"
    /\ deleteSet = <<8>>
    /\ Cardinality({i \in 1..Len(packages) :
                       /\ Len(packages[i].tags) > 0
                       /\ packages[i].updated_at >= cutOff(config)}) = 3

\* the versions carrying a tag sha256-<hex>[suffix] whose subject sha256:<hex>
\* is not a version of the listing
Orphans(pk) ==
    {pk[i].name : i \in {j \in 1..Len(pk) :
        \E t \in Range(pk[j].tags) :
            /\ t.hex # Null
            /\ ~\E k \in 1..Len(pk) : pk[k].name = t.hex}}

UntaggedOf(pk, fs) == {d \in Range(fs) : Len(getPackageByDigest(pk, d).tags) = 0}

\* C30: the keep-n-untagged step moves to deleteSet exactly the untagged
\* digests of filterSet other than N most recently updated ones (none when
\* there are at most N): no retained one is older than an evicted one
C30_KeepNewestUntagged ==
    [][(pc = "untagged" /\ config.keepNuntagged # Unset) =>
          LET unt == UntaggedOf(packages, filterSet)
              added == Range(deleteSet') \ Range(deleteSet)
              kept == unt \cap Range(filterSet')
          IN  /\ added = unt \ kept
              /\ Range(filterSet') = Range(filterSet) \ added
              /\ Range(deleteSet) \subseteq Range(deleteSet')
              /\ Cardinality(kept) =
                     IF Cardinality(unt) < config.keepNuntagged
                     THEN Cardinality(unt) ELSE config.keepNuntagged
              /\ \A d \in kept : \A e \in added :
                     Updated(packages, d) >= Updated(packages, e)]_vars

\* of three untagged versions the newest one was retained
C30_Witness ==
    /\ config.keepNuntagged = 1
    /\ reg0 = FixKeep
    /\ pc = "doDelete"
    /\ deleteSet = <<5, 4>>
    /\ SeqHas(filterSet, 3)

\* C31: recursive deletion terminates for every tag graph, including referrer
\* chains in which referrers point at each other in a cycle: once the loop of
\* doDelete over deleteSet has begun, the task comes to its end (done or
\* failed).
C31_DeletionTerminates == (pc = "deleting") ~> (pc \in {"done", "failed"})

\* the cycle was walked: 9, its referrer 10 and the referrer 7 of 10 were
\* deleted, the call for 10 reached again from 7 returned, and the task ended
C31_Witness ==
    /\ reg0 = FixCycle
    /\ pc = "done"
    /\ stack = <<>>
    /\ config.dryRun
    /\ [j \in 1..Len(calls) |-> calls[j].name] = <<9, 10, 7>>

\* C32: apart from the one-shot delete 404 and the missing child during
\* planning, no error from a registry or packages-API call is suppressed: the
\* error of a login request, of a manifest PUT or of a delete fails the run,
\* and a failed run is over (the task has left its stages).
C32_ErrorsPropagate ==
    /\ (pc # "init" /\ ~authorization) => failed
    /\ putErrors # <<>> => failed
    /\ (\E j \in 1..Len(calls) : calls[j].outcome = "thrown") => failed
    /\ failed => pc = "failed"

\* the calls a step has added to the history
NewCalls == SubSeq(calls', Len(calls) + 1, Len(calls'))

IsPrefix(s, t) == Len(s) <= Len(t) /\ SubSeq(t, 1, Len(s)) = s

IndexOf(s, x) == CHOOSE k \in 1..Len(s) : s[k] = x

\* the digests of dset for which cs holds a delete of a version as an image
TopLevel33(cs, dset) ==
    LET top == SelectSeq(cs, LAMBDA c : c.kind = "image" /\ SeqHas(dset, c.name))
    IN  [j \in 1..Len(top) |-> top[j].name]

\* C33: within a package top-level deletions are issued in stage order: every
\* selecting stage (delete-tags, ghost/partial, orphaned, keep-n-tagged,
\* keep-n-untagged / delete-untagged, in the order of run) puts its
\* selection behind what the stages before it selected, and doDelete issues
\* the deletes of the selected versions in that order.
C33_StageOrder ==
    [][/\ pc \in {"byTag", "structural", "orphaned", "keepTagged", "untagged"}
          => IsPrefix(deleteSet, deleteSet')
       /\ pc = "doDelete"
          => LET top == TopLevel33(NewCalls, deleteSet)
             IN  \A j, k \in 1..Len(top) :
                    j < k => IndexOf(deleteSet, top[j]) < IndexOf(deleteSet, top[k])
      ]_vars

\* 9 was selected by delete-tags, then 3, 4 and 5 by delete-untagged, and the
\* four deletes went out in that order
C33_Witness ==
    /\ reg0 = FixKeep
    /\ pc = "done"
    /\ config.deleteTags = {TagA}
    /\ config.deleteUntagged
    /\ deleteSet = <<9, 3, 4, 5>>
    /\ [j \in 1..Len(calls) |-> calls[j].name] = <<9, 3, 4, 5>>
    /\ \A j \in 1..Len(calls) : calls[j].outcome = "ok"

\* the stage of run that follows keepNtagged
untaggedStage(cfg, pk, fs, dset) ==
    IF cfg.keepNuntagged # Unset THEN keepNuntagged(cfg, pk, fs, dset)
    ELSE IF cfg.deleteUntagged THEN deleteUntagged(pk, fs, dset)
    ELSE [filterSet |-> fs, deleteSet |-> dset]

\* C34: the keep-n-tagged stage never moves an untagged digest, the
\* keep-n-untagged / delete-untagged stage never moves a tagged digest, and
\* the two stages select the same digests whichever of them runs first.
C34_TaggedUntaggedIndependent ==
    [][LET moved == Range(deleteSet') \ Range(deleteSet)
           tagsOf(d) == getPackageByDigest(packages, d).tags
           t == keepNtagged(config, packages, filterSet, deleteSet)
           tu == untaggedStage(config, packages, t.filterSet, t.deleteSet)
           u == untaggedStage(config, packages, filterSet, deleteSet)
           ut == keepNtagged(config, packages, u.filterSet, u.deleteSet)
       IN  /\ pc = "keepTagged"
              => /\ \A d \in moved : tagsOf(d) # <<>>
                 /\ Range(tu.deleteSet) = Range(ut.deleteSet)
                 /\ Range(tu.filterSet) = Range(ut.filterSet)
           /\ pc = "untagged" => \A d \in moved : tagsOf(d) = <<>>
      ]_vars

\* keep-n-tagged 1 moved the tagged 10, 7 and 8, then keep-n-untagged 1 moved
\* the untagged 5 and 4
C34_Witness ==
    /\ reg0 = FixKeep
    /\ pc = "doDelete"
    /\ config.keepNtagged = 1
    /\ config.keepNuntagged = 1
    /\ deleteSet = <<10, 7, 8, 5, 4>>

\* C35: keep-n-untagged together with delete-untagged is rejected at startup
\* for every keep-n-untagged value from 0 up: buildConfig throws for every
\* such input, and no task runs under a configuration that holds both.
C35_KeepUntaggedExcludesDeleteUntagged ==
    /\ \A in \in Inputs :
          (in.keepNuntagged # Unset /\ in.deleteUntagged # "")
              => ConfigRejected(in)
    /\ ~(config.keepNuntagged # Unset /\ config.deleteUntagged)

\* the inputs from which buildConfig makes the configuration c: the input
\* delete-untagged is the only one that c does not hold as it was given
InputsOf(c) ==
    {in \in {[c EXCEPT !.deleteUntagged = u] : u \in {"", "true", "false"}} :
        ~ConfigRejected(in) /\ buildConfig(in) = c}

\* none of the options that choose a stage is configured
NoStageOption(in) ==
    /\ in.deleteTags = {}
    /\ ~in.deleteGhostImages
    /\ ~in.deletePartialImages
    /\ ~in.deleteOrphanedImages
    /\ in.keepNtagged = Unset
    /\ in.keepNuntagged = Unset

\* C36: when delete-untagged is not given, buildConfig sets deleteUntagged to
\* true exactly when none of delete-tags, delete-ghost-images,
\* delete-partial-images, delete-orphaned-images, keep-n-tagged and
\* keep-n-untagged is configured; exclude-tags and older-than do not count.
C36_DefaultDeleteUntagged ==
    \A in \in InputsOf(config) :
        in.deleteUntagged = "" => (config.deleteUntagged <=> NoStageOption(in))

\* a task configured with exclude-tags, older-than and dry-run only has run
\* the delete-untagged stage and named the untagged versions 4 and 5 of FixKeep
C36_Witness ==
    /\ reg0 = FixKeep
    /\ pc = "done"
    /\ config.excludeTags # {}
    /\ config.olderThan = MaxTime - 5
    /\ config.dryRun
    /\ config.deleteUntagged
    /\ config.deleteTags = {}
    /\ {calls[j].name : j \in 1..Len(calls)} = {4, 5}

\* C37: the delete call of the untag protocol always names the substitute
\* version created by the upload, never a version the package already held
\* when the task started, in every mode (dry-run included).
C37_UntagDeletesSubstitute ==
    \A j \in 1..Len(calls) :
        calls[j].kind = "untag" =>
            /\ IsFake(calls[j].name)
            /\ ~RegHasId(reg0, calls[j].id)

\* the working record of a task that starts on the registry r, logged in
Fresh(r) ==
    [reg |-> r, nextId |-> FakeBase, lastDeleteResult |-> TRUE, calls |-> <<>>,
     puts |-> <<>>, failed |-> FALSE, putErrors |-> <<>>, badPuts |-> {},
     auth |-> TRUE, cache |-> {}, fetches |-> <<>>, deleted |-> {},
     usedBy |-> {}]

\* the selecting stages of CleanupTask.run, in its order, on the fields f
plan(f, cfg) ==
    LET a == IF cfg.deleteTags # {}
             THEN deleteByTag(f.st, cfg, f.packages, f.tagsInUse, f.excludeTags,
                              f.filterSet, f.deleteSet)
             ELSE f
        pk == a.packages
        b == IF cfg.deletePartialImages
             THEN deletePartialImages(pk, a.filterSet, a.deleteSet)
             ELSE IF cfg.deleteGhostImages
             THEN deleteGhostImages(pk, a.filterSet, a.deleteSet)
             ELSE [filterSet |-> a.filterSet, deleteSet |-> a.deleteSet]
        c == IF cfg.deleteOrphanedImages
             THEN deleteOrphanedImages(pk, b.filterSet, b.deleteSet)
             ELSE b
        d == IF cfg.keepNtagged # Unset
             THEN keepNtagged(cfg, pk, c.filterSet, c.deleteSet)
             ELSE c
        e == untaggedStage(cfg, pk, d.filterSet, d.deleteSet)
    IN  IF a.st.failed THEN a
        ELSE [a EXCEPT !.filterSet = e.filterSet, !.deleteSet = e.deleteSet]

\* main for one package: reload, the stages of run, doDelete
runTask(st, cfg) ==
    LET f == reload(st, cfg)
        p == IF f.st.failed THEN f ELSE plan(f, cfg)
    IN  IF p.st.failed THEN p.st
        ELSE doDelete(p.st, cfg, p.packages, p.excludeTags, p.deleteSet)

Reverse(s) == [i \in 1..Len(s) |-> s[Len(s) + 1 - i]]

\* the versions a finished task has named in a delete call
Named(st) == {st.calls[j].id : j \in 1..Len(st.calls)}

\* C38: the versions deleted by a run depend only on the package contents and
\* the configuration, not on the order of the version listing: a task that
\* starts on the package listed in the opposite order ends the same way and
\* leaves the same versions.
C38_ListingOrderIrrelevant ==
    (pc = "reload" /\ authorization) =>
        LET one == runTask(Fresh(reg), config)
            two == runTask(Fresh(Reverse(reg)), config)
        IN  /\ one.failed = two.failed
            /\ Range(one.reg) = Range(two.reg)
            /\ Named(one) = Named(two)

\* the ids of the versions of the listing r
Ids(r) == {r[i].id : i \in 1..Len(r)}

\* C39: the versions a dry-run reports as deleted are exactly the versions
\* the same configuration deletes from the same package without dry-run.
C39_DryRunReportsRealDeletions ==
    (pc = "reload" /\ authorization /\ config.dryRun) =>
        LET dry == runTask(Fresh(reg), config)
            real == runTask(Fresh(reg), [config EXCEPT !.dryRun = FALSE])
        IN  (~dry.failed /\ ~real.failed) =>
                Named(dry) \cap Ids(reg) = Ids(reg) \ Ids(real.reg)

\* C40: within one run no version id receives more than one DeleteVersion
\* request: a version deleted as a top-level digest, as a child or as a
\* referrer is not deleted again when it is reached by another path (a call
\* under dry-run sends no request).
C40_DeletedOnce ==
    \A j, k \in 1..Len(calls) :
        (j < k /\ calls[j].outcome # "dry" /\ calls[k].outcome # "dry")
            => calls[j].id # calls[k].id

\* version 3 was deleted as a top-level digest, then reached again as a child
\* of index 1 and left alone: one delete for each of 9, 10, 3, 1 and 4
C40_Witness ==
    /\ reg0 = FixOrphan
    /\ pc = "done"
    /\ ~config.dryRun
    /\ deleteSet = <<9, 10, 3, 1>>
    /\ [j \in 1..Len(calls) |-> calls[j].name] = <<9, 10, 3, 1, 4>>
    /\ \A j \in 1..Len(calls) : calls[j].outcome = "ok"

TypeOK ==
    /\ pc \in {"init", "reload", "done", "failed", "repo", "deleting"}
             \cup Range(Stages)
    /\ failed \in BOOLEAN
    /\ lastDeleteResult \in BOOLEAN
    /\ authorization \in BOOLEAN

=============================================================================
